---- MODULE Spec2Model ----
(***************************************************************************)
(* Model of the prompt-refinement pipeline of codex-mcp:                   *)
(*   src/src/templates.ts, src/unnamed/part_002  heuristic template engine *)
(*   src/src/codex.ts                            subprocess invoker,       *)
(*                                               reconciler, enrichment    *)
(*   src/src/server.ts                           refine_prompt handler     *)
(* Text is modelled by TLA+ strings; every text operation of the code      *)
(* (includes, toLowerCase, trim, split, match, replace, slice) is computed *)
(* character by character on them.                                         *)
(***************************************************************************)
EXTENDS Integers, Sequences, FiniteSets, TLC

(***************************************************************************)
(* JavaScript string and array primitives used by the code                 *)
(***************************************************************************)

\* String.prototype.includes(k)
Includes(s, k) ==
  \E i \in 0..(Len(s) - Len(k)) : SubSeq(s, i + 1, i + Len(k)) = k

\* the i-th character of s, as a one-character string
CharAt(s, i) == SubSeq(s, i, i)

UpperChars == "ABCDEFGHIJKLMNOPQRSTUVWXYZÃÇÕÓ"
LowerChars == "abcdefghijklmnopqrstuvwxyzãçõó"

LowerChar(ch) ==
  IF \E i \in 1..Len(UpperChars) : CharAt(UpperChars, i) = ch
  THEN CharAt(LowerChars, CHOOSE i \in 1..Len(UpperChars) : CharAt(UpperChars, i) = ch)
  ELSE ch

\* String.prototype.toLowerCase()
RECURSIVE ToLowerCase(_)
ToLowerCase(s) ==
  IF s = "" THEN ""
  ELSE LowerChar(CharAt(s, 1)) \o ToLowerCase(SubSeq(s, 2, Len(s)))

IsSpace(ch) == ch \in {" ", "\n", "\t", "\r"}

RECURSIVE TrimStart(_)
TrimStart(s) ==
  IF s # "" /\ IsSpace(CharAt(s, 1)) THEN TrimStart(SubSeq(s, 2, Len(s))) ELSE s

RECURSIVE TrimEnd(_)
TrimEnd(s) ==
  IF s # "" /\ IsSpace(CharAt(s, Len(s))) THEN TrimEnd(SubSeq(s, 1, Len(s) - 1)) ELSE s

\* String.prototype.trim()
Trim(s) == TrimEnd(TrimStart(s))

\* String.prototype.indexOf(k), 1-based; 0 when k does not occur
IndexOf(s, k) ==
  IF Includes(s, k)
  THEN CHOOSE i \in 1..Len(s) :
         /\ SubSeq(s, i, i + Len(k) - 1) = k
         /\ \A j \in 1..(i - 1) : SubSeq(s, j, j + Len(k) - 1) # k
  ELSE 0

\* String.prototype.lastIndexOf(k), 1-based; 0 when k does not occur
LastIndexOf(s, k) ==
  IF Includes(s, k)
  THEN CHOOSE i \in 1..Len(s) :
         /\ SubSeq(s, i, i + Len(k) - 1) = k
         /\ \A j \in (i + 1)..Len(s) : SubSeq(s, j, j + Len(k) - 1) # k
  ELSE 0

\* String.prototype.replace(a, b) with a string pattern: the first occurrence only
ReplaceFirst(s, a, b) ==
  LET i == IndexOf(s, a) IN
  IF i = 0 THEN s
  ELSE SubSeq(s, 1, i - 1) \o b \o SubSeq(s, i + Len(a), Len(s))

\* String.prototype.split('\n')
RECURSIVE SplitLines(_)
SplitLines(s) ==
  LET i == IndexOf(s, "\n") IN
  IF i = 0 THEN <<s>>
  ELSE <<SubSeq(s, 1, i - 1)>> \o SplitLines(SubSeq(s, i + 1, Len(s)))

\* slice(0, n) taking one element too many
Slice_OffByOne(seq, n) == SubSeq(seq, 1, IF Len(seq) < n + 1 THEN Len(seq) ELSE n + 1)

\* Array.prototype.slice(0, n)
Slice(seq, n) == SubSeq(seq, 1, IF Len(seq) < n THEN Len(seq) ELSE n)

\* duplicates removed keeping each tag's last occurrence
RECURSIVE Dedupe_KeepLast(_)
Dedupe_KeepLast(seq) ==
  IF seq = <<>> THEN <<>>
  ELSE LET rest == Dedupe_KeepLast(Tail(seq)) IN
       IF \E i \in 1..Len(rest) : rest[i] = Head(seq) THEN rest ELSE <<Head(seq)>> \o rest

\* [...new Set(seq)]: duplicates removed, first occurrences kept in order
RECURSIVE Dedupe(_)
Dedupe(seq) ==
  IF seq = <<>> THEN <<>>
  ELSE LET front == Dedupe(SubSeq(seq, 1, Len(seq) - 1))
           last  == seq[Len(seq)]
       IN IF \E i \in 1..Len(front) : front[i] = last THEN front ELSE Append(front, last)

Elems(seq) == {seq[i] : i \in 1..Len(seq)}

\* `${code}` for the exit statuses the model uses
CodeToString(code) ==
  CASE code = "null" -> "null"
    [] code = "0" -> "0"
    [] code = "1" -> "1"
    [] code = "2" -> "2"
    [] code = "-2" -> "-2"
    [] code = "-13" -> "-13"

(***************************************************************************)
(* Rule documents (templates.ts PromptRules)                               *)
(***************************************************************************)

DefaultSections == <<"Plan", "Risks", "Next actions", "Tests">>

\* getDefaultRules()
DefaultRules ==
  [ main_refiner |-> "You are an expert prompt engineer. Analyze and improve the given prompt with structured output in JSON format.",
    templates |-> [ software_development |->
                      [ prompt_prefix |-> "Como um desenvolvedor sênior experiente, ",
                        sections |-> <<"Análise de Requisitos", "Arquitetura Proposta",
                                       "Implementação", "Testes", "Documentação">> ] ],
    risk_categories |-> <<"Segurança", "Performance", "Escalabilidade">>,
    common_tags |-> <<"desenvolvimento", "automação", "dados">> ]

\* a rule file rules/prompt_rules.yaml in the PromptRules shape that defines both
\* template categories and a larger tag vocabulary
FileRules ==
  [ main_refiner |-> "Refine the prompt. Answer in JSON.",
    templates |-> [ software_development |->
                      [ prompt_prefix |-> "Como desenvolvedor, ",
                        sections |-> <<"Requisitos", "Implementação", "Testes">> ],
                    data_processing |->
                      [ prompt_prefix |-> "Como engenheiro de dados, ",
                        sections |-> <<"Fontes", "Transformação", "Carga">> ] ],
    risk_categories |-> <<"Segurança">>,
    common_tags |-> <<"desenvolvimento", "automação", "dados", "api", "Script">> ]

\* outcomes of readFileSync + YAML.parse at construction
\* a parsed rule file whose data template leaves its section list out
PartialRules ==
  [ main_refiner |-> "Refine the prompt. Answer in JSON.",
    templates |-> [ software_development |->
                      [ prompt_prefix |-> "Como desenvolvedor, ",
                        sections |-> <<"Requisitos", "Implementação", "Testes">> ],
                    data_processing |-> [ prompt_prefix |-> "Como engenheiro de dados, " ] ],
    risk_categories |-> <<"Segurança">>,
    common_tags |-> <<"dados", "api">> ]

\* a parsed rule file whose data template has a section list with nothing in it
EmptySectionsRules ==
  [ main_refiner |-> "Refine the prompt. Answer in JSON.",
    templates |-> [ software_development |->
                      [ prompt_prefix |-> "Como desenvolvedor, ",
                        sections |-> <<"Requisitos", "Implementação", "Testes">> ],
                    data_processing |->
                      [ prompt_prefix |-> "Como engenheiro de dados, ",
                        sections |-> <<>> ] ],
    risk_categories |-> <<"Segurança">>,
    common_tags |-> <<"dados", "api">> ]

RuleFileOutcomes == {"missing", "unparseable", "parsed"}

\* a load that keeps whatever the file gave, with no fallback to the defaults
loadRules_NoDefaults(outcome) == FileRules

\* loadRules(): the parsed file, or the defaults when reading or parsing throws
loadRules(outcome) == IF outcome = "parsed" THEN FileRules ELSE DefaultRules

(***************************************************************************)
(* Heuristic template engine (TemplateManager).  The repository holds two  *)
(* versions of it: src/src/templates.ts ("simple") and src/unnamed/part_002*)
(* ("rich"); v names the version that is linked.                           *)
(***************************************************************************)

Engines == {"simple", "rich"}

AnyIncluded(lowerPrompt, keys) == \E k \in keys : Includes(lowerPrompt, k)

\* the two keyword groups tested in the other order
detectTemplate_DataFirst(prompt) ==
  LET lowerPrompt == ToLowerCase(prompt) IN
  IF AnyIncluded(lowerPrompt, {"dados", "csv", "database", "postgres"})
  THEN "data_processing"
  ELSE "software_development"

\* detectTemplate(prompt)
detectTemplate(prompt) ==
  LET lowerPrompt == ToLowerCase(prompt) IN
  IF AnyIncluded(lowerPrompt, {"script", "código", "desenvolv", "program"})
  THEN "software_development"
  ELSE IF AnyIncluded(lowerPrompt, {"dados", "csv", "database", "postgres"})
  THEN "data_processing"
  ELSE "software_development"

\* an unknown category given the development template's sections
getTemplateMetadata_DevelopmentForUnknown(r, templateName) ==
  IF templateName \notin DOMAIN r.templates
  THEN [ sections |-> r.templates["software_development"].sections,
         acceptanceCriteria |-> <<"Funcionalidade implementada corretamente",
                                  "Testes passando", "Documentação atualizada">>,
         checklist |-> <<"Revisar código", "Executar testes", "Validar requisitos">> ]
  ELSE [ sections |-> IF "sections" \in DOMAIN r.templates[templateName]
                      THEN r.templates[templateName].sections
                      ELSE DefaultSections,
         acceptanceCriteria |-> <<"Solução atende aos requisitos especificados",
                                  "Código segue padrões de qualidade",
                                  "Testes validam funcionalidade">>,
         checklist |-> <<"Implementar solução proposta", "Criar testes unitários",
                         "Validar com dados de teste", "Documentar implementação">> ]

\* getTemplateMetadata(templateName) on rule document r
getTemplateMetadata(r, templateName) ==
  IF templateName \notin DOMAIN r.templates
  THEN [ sections |-> DefaultSections,
         acceptanceCriteria |-> <<"Funcionalidade implementada corretamente",
                                  "Testes passando", "Documentação atualizada">>,
         checklist |-> <<"Revisar código", "Executar testes", "Validar requisitos">> ]
  ELSE [ sections |-> IF "sections" \in DOMAIN r.templates[templateName]
                      THEN r.templates[templateName].sections
                      ELSE DefaultSections,
         acceptanceCriteria |-> <<"Solução atende aos requisitos especificados",
                                  "Código segue padrões de qualidade",
                                  "Testes validam funcionalidade">>,
         checklist |-> <<"Implementar solução proposta", "Criar testes unitários",
                         "Validar com dados de teste", "Documentar implementação">> ]

\* the test of the common_tags loop of suggestTags
VocabularyMatches(v, lowerPrompt, tag) ==
  LET tagLower == ToLowerCase(tag) IN
  \/ Includes(lowerPrompt, tagLower)
  \/ Includes(lowerPrompt, ReplaceFirst(tagLower, "ã", "a"))
  \/ v = "rich" /\ Includes(lowerPrompt, ReplaceFirst(tagLower, "ç", "c"))

\* the keyword rules of suggestTags, in source order
KeywordTags(v, lowerPrompt) ==
     (IF AnyIncluded(lowerPrompt, {"api", "rest", "endpoint"}) THEN <<"api">> ELSE <<>>)
  \o (IF AnyIncluded(lowerPrompt, {"test", "unit", "integration"}) THEN <<"testes">> ELSE <<>>)
  \o (IF AnyIncluded(lowerPrompt, {"performance", "otimiz", "speed"}) THEN <<"performance">> ELSE <<>>)
  \o (IF v = "rich" /\ AnyIncluded(lowerPrompt, {"script", "automat"}) THEN <<"automação">> ELSE <<>>)
  \o (IF v = "rich" /\ AnyIncluded(lowerPrompt, {"csv", "postgres", "database"}) THEN <<"dados">> ELSE <<>>)
  \o (IF v = "rich" /\ AnyIncluded(lowerPrompt, {"desenvolv", "criar", "implement"}) THEN <<"desenvolvimento">> ELSE <<>>)

\* for (const tag of this.rules.common_tags) ... suggestedTags.push(tag)
RECURSIVE VocabularyTags(_, _, _)
VocabularyTags(v, lowerPrompt, tags) ==
  IF tags = <<>> THEN <<>>
  ELSE (IF VocabularyMatches(v, lowerPrompt, Head(tags)) THEN <<Head(tags)>> ELSE <<>>)
       \o VocabularyTags(v, lowerPrompt, Tail(tags))

\* suggestTags(prompt)
suggestTags(v, r, prompt) ==
  LET lowerPrompt == ToLowerCase(prompt)
  IN Dedupe(VocabularyTags(v, lowerPrompt, r.common_tags) \o KeywordTags(v, lowerPrompt))

GenericRisk == "Verificar implementação cuidadosamente"
DataRisk == "Validação de dados de entrada necessária"

\* the category tests of identifyRisks, in source order
CategoryRisks(v, lowerPrompt) ==
     (IF \/ AnyIncluded(lowerPrompt, {"password", "secret", "token", "auth"})
         \/ v = "rich" /\ AnyIncluded(lowerPrompt, {"login", "senha"})
      THEN <<"Dados sensíveis podem estar expostos">> ELSE <<>>)
  \o (IF \/ AnyIncluded(lowerPrompt, {"loop", "recursão", "grande volume"})
         \/ v = "rich" /\ AnyIncluded(lowerPrompt, {"many", "milhões", "lote"})
      THEN <<"Possível impacto na performance com grandes volumes">> ELSE <<>>)
  \o (IF \/ AnyIncluded(lowerPrompt, {"database", "sql", "dados"})
         \/ v = "rich" /\ AnyIncluded(lowerPrompt, {"csv", "postgres", "validação"})
      THEN <<DataRisk>> ELSE <<>>)
  \o (IF \/ AnyIncluded(lowerPrompt, {"api", "external", "terceiro"})
         \/ v = "rich" /\ AnyIncluded(lowerPrompt, {"http", "rest", "endpoint"})
      THEN <<"Dependência de serviços externos pode falhar">> ELSE <<>>)
  \o (IF v = "rich" /\ AnyIncluded(lowerPrompt, {"arquivo", "file", "salvar", "gravar"})
      THEN <<"Verificar permissões de acesso a arquivos">> ELSE <<>>)
  \o (IF v = "rich" /\ AnyIncluded(lowerPrompt, {"backup", "recovery", "restore", "recuper"})
      THEN <<"Implementar estratégia de recuperação em caso de falha">> ELSE <<>>)

\* identifyRisks(prompt)
identifyRisks(v, prompt) ==
  LET risks == CategoryRisks(v, ToLowerCase(prompt)) IN
  IF v = "rich" /\ risks = <<>> THEN <<GenericRisk>> ELSE risks

\* formatSystemPrompt(context); context "" stands for an absent or empty context
formatSystemPrompt(r, context) ==
  IF context # "" THEN r.main_refiner \o "\n\nCONTEXT:\n" \o context ELSE r.main_refiner

(***************************************************************************)
(* codex.ts: prompt construction                                           *)
(***************************************************************************)

\* Array.prototype.join(', ')
RECURSIVE JoinTags(_)
JoinTags(tags) ==
  IF tags = <<>> THEN ""
  ELSE IF Len(tags) = 1 THEN tags[1]
  ELSE tags[1] \o ", " \o JoinTags(Tail(tags))

OutputFormatSpec ==
  "Please refine this prompt and respond with ONLY a valid JSON object matching this exact structure:\n"
  \o "{\n  \"improvedPrompt\": \"Your refined version of the prompt\",\n"
  \o "  \"rationale\": \"Explanation of changes made and reasoning\",\n"
  \o "  \"risks\": [\"Array of potential risks or issues\"],\n"
  \o "  \"tags\": [\"Array of relevant tags\"],\n"
  \o "  \"metadata\": {\n"
  \o "    \"sections\": [\"Plan\", \"Risks\", \"Next actions\", \"Tests\"],\n"
  \o "    \"acceptanceCriteria\": [\"Specific measurable outcomes\"],\n"
  \o "    \"checklist\": [\"Actionable verification steps\"]\n  }\n}"

\* buildPromptForCodex(prompt, context, tags); hasTags is FALSE for tags undefined
buildPromptForCodex(prompt, context, hasTags, tags) ==
     "PROMPT TO REFINE:\n\"" \o prompt \o "\"\n\n"
  \o (IF context # "" THEN "ADDITIONAL CONTEXT:\n" \o context \o "\n\n" ELSE "")
  \o (IF hasTags /\ Len(tags) > 0 THEN "SUGGESTED TAGS: " \o JoinTags(tags) \o "\n\n" ELSE "")
  \o OutputFormatSpec

\* the text written to the child's stdin
StdinInput(systemPrompt, userPrompt) == systemPrompt \o "\n\nUser: " \o userPrompt

(***************************************************************************)
(* codex.ts: errors raised by executeCodexCommand                          *)
(***************************************************************************)

\* the code field holds `code || undefined`: no value for a null status
SpawnErrorOf(message) ==
  [ name |-> "CodexCLIError", kind |-> "spawn", code |-> "undefined",
    message |-> "Failed to spawn Codex CLI: " \o message ]

ExitErrorOf(code, stderrText) ==
  [ name |-> "CodexCLIError", kind |-> "exit",
    code |-> IF code = "null" THEN "undefined" ELSE code,
    message |-> "Codex CLI failed with exit code " \o CodeToString(code) \o ": " \o stderrText ]

TimeoutError ==
  [ name |-> "CodexCLIError", kind |-> "timeout", code |-> "undefined",
    message |-> "Codex CLI operation timed out" ]

(***************************************************************************)
(* codex.ts: output reconciliation                                         *)
(***************************************************************************)

\* output.match(/\{[\s\S]*\}/): from the first "{" to the last "}" after it
MatchJSON(output) ==
  LET i == IndexOf(output, "{")
      j == LastIndexOf(output, "}")
  IN IF i = 0 \/ j < i THEN [found |-> FALSE, text |-> ""]
     ELSE [found |-> TRUE, text |-> SubSeq(output, i, j)]

\* JSON values: strings, arrays of strings, numbers and objects, each with its type
JStr(s) == [t |-> "string", v |-> s]
JArr(q) == [t |-> "strings", v |-> q]
JNum(n) == [t |-> "number", v |-> n]
JObj(o) == [t |-> "object", v |-> o]

\* JSON documents a subprocess writes in the model
DocB ==
  "{\"improvedPrompt\":\"x\",\"rationale\":\"y\",\"risks\":[\"r1\"],\"tags\":[\"t1\"],"
  \o "\"metadata\":{\"sections\":[\"s1\"],\"acceptanceCriteria\":[\"a1\"],\"checklist\":[\"c1\"]}}"
DocBlank ==
  "{\"improvedPrompt\":\" \",\"rationale\":\"\\n\",\"risks\":[\"r1\"],\"tags\":[\"t1\"],"
  \o "\"metadata\":{\"sections\":[\"s1\"],\"acceptanceCriteria\":[\"a1\"],\"checklist\":[\"c1\"]}}"
DocEmpty ==
  "{\"improvedPrompt\":\"\",\"rationale\":\"\",\"risks\":[],\"tags\":[],"
  \o "\"metadata\":{\"sections\":[],\"acceptanceCriteria\":[],\"checklist\":[]}}"
DocExtra ==
  "{\"improvedPrompt\":\"x2\",\"rationale\":\"y2\",\"risks\":[\"r1\",\"r1\"],\"tags\":[\"t1\",\"t1\"],"
  \o "\"metadata\":{\"sections\":[\"s1\"],\"acceptanceCriteria\":[\"a1\"],\"checklist\":[\"c1\"]},\"note\":1}"
DocWrongShape == "{\"foo\":1}"
DocWrongType ==
  "{\"improvedPrompt\":\"x\",\"rationale\":\"y\",\"risks\":\"r1\",\"tags\":[\"t1\"],"
  \o "\"metadata\":{\"sections\":[\"s1\"],\"acceptanceCriteria\":[\"a1\"],\"checklist\":[\"c1\"]}}"
DocNotJSON == "{oops}"

MetaOf(s, a, c) ==
  JObj([sections |-> JArr(s), acceptanceCriteria |-> JArr(a), checklist |-> JArr(c)])

\* JSON.parse on the documents above; every other text of the model is a SyntaxError
JSONParse(text) ==
  CASE text = DocB ->
         [ok |-> TRUE, value |-> JObj([improvedPrompt |-> JStr("x"), rationale |-> JStr("y"),
            risks |-> JArr(<<"r1">>), tags |-> JArr(<<"t1">>),
            metadata |-> MetaOf(<<"s1">>, <<"a1">>, <<"c1">>)])]
    [] text = DocBlank ->
         [ok |-> TRUE, value |-> JObj([improvedPrompt |-> JStr(" "), rationale |-> JStr("\n"),
            risks |-> JArr(<<"r1">>), tags |-> JArr(<<"t1">>),
            metadata |-> MetaOf(<<"s1">>, <<"a1">>, <<"c1">>)])]
    [] text = DocEmpty ->
         [ok |-> TRUE, value |-> JObj([improvedPrompt |-> JStr(""), rationale |-> JStr(""),
            risks |-> JArr(<<>>), tags |-> JArr(<<>>),
            metadata |-> MetaOf(<<>>, <<>>, <<>>)])]
    [] text = DocExtra ->
         [ok |-> TRUE, value |-> JObj([improvedPrompt |-> JStr("x2"), rationale |-> JStr("y2"),
            risks |-> JArr(<<"r1", "r1">>), tags |-> JArr(<<"t1", "t1">>),
            metadata |-> MetaOf(<<"s1">>, <<"a1">>, <<"c1">>), note |-> JNum("1")])]
    [] text = DocWrongShape ->
         [ok |-> TRUE, value |-> JObj([foo |-> JNum("1")])]
    [] text = DocWrongType ->
         [ok |-> TRUE, value |-> JObj([improvedPrompt |-> JStr("x"), rationale |-> JStr("y"),
            risks |-> JStr("r1"), tags |-> JArr(<<"t1">>),
            metadata |-> MetaOf(<<"s1">>, <<"a1">>, <<"c1">>)])]
    [] OTHER -> [ok |-> FALSE, value |-> JStr("SyntaxError")]

HasField(obj, key, type) == key \in DOMAIN obj.v /\ obj.v[key].t = type

\* CodexOutputSchema: whether a parsed value validates
SchemaAccepts(j) ==
  /\ j.t = "object"
  /\ HasField(j, "improvedPrompt", "string")
  /\ HasField(j, "rationale", "string")
  /\ HasField(j, "risks", "strings")
  /\ HasField(j, "tags", "strings")
  /\ HasField(j, "metadata", "object")
  /\ HasField(j.v.metadata, "sections", "strings")
  /\ HasField(j.v.metadata, "acceptanceCriteria", "strings")
  /\ HasField(j.v.metadata, "checklist", "strings")

\* CodexOutputSchema.parse: the validated object, unknown keys stripped
SchemaValue(j) ==
  [ improvedPrompt |-> j.v.improvedPrompt.v,
    rationale |-> j.v.rationale.v,
    risks |-> j.v.risks.v,
    tags |-> j.v.tags.v,
    metadata |-> [ sections |-> j.v.metadata.v.sections.v,
                   acceptanceCriteria |-> j.v.metadata.v.acceptanceCriteria.v,
                   checklist |-> j.v.metadata.v.checklist.v ] ]

NoResult ==
  [ improvedPrompt |-> "", rationale |-> "", risks |-> <<>>, tags |-> <<>>,
    metadata |-> [sections |-> <<>>, acceptanceCriteria |-> <<>>, checklist |-> <<>>] ]

\* tryParseJSONOutput(output); ok FALSE stands for the null it returns
tryParseJSONOutput(output) ==
  LET m == MatchJSON(output)
      parsed == JSONParse(m.text)
  IN IF m.found /\ parsed.ok /\ SchemaAccepts(parsed.value)
     THEN [ok |-> TRUE, value |-> SchemaValue(parsed.value)]
     ELSE [ok |-> FALSE, value |-> NoResult]

(***************************************************************************)
(* Inputs of the model                                                     *)
(***************************************************************************)

MaxCallerTags == 9

DigitStr(i) == CharAt("0123456789", i + 1)
TagName(i) == IF i < 10 THEN "t" \o DigitStr(i) ELSE "t" \o DigitStr(i \div 10) \o DigitStr(i % 10)

\* a caller-supplied tag list long enough to pass the cap on its own
LongTags == [i \in 1..MaxCallerTags |-> TagName(i)]

StringInput(prompt, hasTags, tags, context) ==
  [ isNull |-> FALSE, promptKind |-> "string", prompt |-> prompt,
    hasTags |-> hasTags, tags |-> tags, context |-> context ]

\* the prompts of refine_prompt calls.  They are unaccented: TLC keeps the strings of a
\* state on its disk queue one byte per character, so accented prompt text is applied
\* to the engine in EnginePrompts, from where it never enters a queued state.
ValidPrompts ==
  { " ", "hello", "Script csv", "dados api",
    "API test: otimizar dados, script e desenvolvimento" }

TagInputs ==
  { [has |-> FALSE, tags |-> <<>>], [has |-> TRUE, tags |-> <<>>],
    [has |-> TRUE, tags |-> <<"api", "rest">>], [has |-> TRUE, tags |-> LongTags] }

Requests ==
  { StringInput(p, t.has, t.tags, "") : p \in ValidPrompts, t \in TagInputs }
  \cup { StringInput("hello", FALSE, <<>>, "ctx"),
         StringInput("", FALSE, <<>>, ""),
         StringInput("", TRUE, <<"api", "rest">>, ""),
         [ isNull |-> TRUE, promptKind |-> "missing", prompt |-> "",
           hasTags |-> FALSE, tags |-> <<>>, context |-> "" ],
         [ isNull |-> FALSE, promptKind |-> "missing", prompt |-> "",
           hasTags |-> FALSE, tags |-> <<>>, context |-> "" ],
         [ isNull |-> FALSE, promptKind |-> "number", prompt |-> "",
           hasTags |-> FALSE, tags |-> <<>>, context |-> "" ] }

\* what the spawned process does: fails to start, or writes chunks and exits with
\* a status ("null": ended by a signal; "hang": never exits on its own)
RunPlan(out, err, exit, ignoresTerm) ==
  [ kind |-> "run", msg |-> "", out |-> out, err |-> err, exit |-> exit,
    ignoresTerm |-> ignoresTerm ]

SpawnFailPlan ==
  [ kind |-> "spawnfail", msg |-> "spawn codex ENOENT", out |-> <<>>, err |-> <<>>,
    exit |-> "-2", ignoresTerm |-> FALSE ]

\* the binary is there and may not be executed
SpawnDeniedPlan ==
  [ kind |-> "spawnfail", msg |-> "spawn codex EACCES", out |-> <<>>, err |-> <<>>,
    exit |-> "-13", ignoresTerm |-> FALSE ]

StdoutSamples ==
  { <<>>, <<"ok">>, <<DocB>>, <<" \n", DocB \o "\n">>, <<"Here: " \o DocB \o " done">>,
    <<DocB \o "\n" \o DocB>>, <<DocBlank>>, <<DocEmpty>>, <<DocExtra>>,
    <<DocWrongShape>>, <<DocWrongType>>, <<DocNotJSON>>, <<"ab\n\nabcd\n", "abcde">> }

Plans ==
  { RunPlan(out, <<>>, "0", FALSE) : out \in StdoutSamples }
  \cup { SpawnFailPlan, SpawnDeniedPlan,
         RunPlan(<<>>, <<"boom">>, "1", FALSE),
         RunPlan(<<DocB>>, <<"warn", "ing">>, "2", FALSE),
         RunPlan(<<>>, <<>>, "null", FALSE),
         RunPlan(<<>>, <<>>, "hang", FALSE),
         RunPlan(<<>>, <<>>, "hang", TRUE) }

NoPlan == RunPlan(<<>>, <<>>, "hang", FALSE)

NoError == [name |-> "", kind |-> "none", code |-> "undefined", message |-> ""]

NoResponse == [kind |-> "none"]

CallIds == {"c1"}

(***************************************************************************)
(* The text functions tabulated over the texts of the model: the tables    *)
(* hold, for each prompt and each subprocess output, exactly what the      *)
(* functions above compute on it.                                          *)
(***************************************************************************)

\* the prompts given directly to the methods of the engine and to the fallback builders
EnginePrompts ==
  { "", " ", "hello", "Script", "SCRIPT POSTGRES", "postgres csv", "Código", "dados",
    "DADOS API", "dados csv api", "script api", "automaçao", "criar endpoint rest",
    "unit test speed", "password loop sql", "backup file",
    "API test: otimizar dados, automação e desenvolvimento",
    "Quero um script que leia CSV e grave no Postgres com validação" }

TemplateNames == {"software_development", "data_processing", "new_category"}

Prompts == {i.prompt : i \in Requests} \cup EnginePrompts

RuleDocs == {loadRules(o) : o \in RuleFileOutcomes} \cup {PartialRules, EmptySectionsRules}

\* stdout += data.toString(), over all the chunks of a plan
RECURSIVE Concat(_)
Concat(chunks) == IF chunks = <<>> THEN "" ELSE Head(chunks) \o Concat(Tail(chunks))

\* what executeCodexCommand can resolve with
Outputs == {Trim(Concat(p.out)) : p \in {q \in Plans : q.exit = "0"}}

NonBlank(line) == Trim(line) # ""

\* lines.filter(line => line.trim())
RECURSIVE FilterNonBlank(_)
FilterNonBlank(lines) ==
  IF lines = <<>> THEN <<>>
  ELSE (IF NonBlank(Head(lines)) THEN <<Head(lines)>> ELSE <<>>)
       \o FilterNonBlank(Tail(lines))

Template == [p \in Prompts |-> detectTemplate(p)]

Suggested == [v \in Engines, r \in RuleDocs, p \in Prompts |-> suggestTags(v, r, p)]

Risks == [v \in Engines, p \in Prompts |-> identifyRisks(v, p)]

Parsed == [o \in Outputs |-> tryParseJSONOutput(o)]

\* codexOutput.split('\n').filter(line => line.trim())
Lines == [o \in Outputs |-> FilterNonBlank(SplitLines(o))]

FallbackRationale ==
  "Prompt refinado utilizando template padrão devido a limitações na saída do Codex CLI."

TagCap == 8

\* a line of exactly 80% of the prompt's length taken as substantial
PickImprovedLine_AtLeast(lines, originalPrompt) ==
  IF \E i \in 1..Len(lines) : 10 * Len(lines[i]) >= 8 * Len(originalPrompt)
  THEN lines[CHOOSE i \in 1..Len(lines) :
                /\ 10 * Len(lines[i]) >= 8 * Len(originalPrompt)
                /\ \A k \in 1..(i - 1) : ~(10 * Len(lines[k]) >= 8 * Len(originalPrompt))]
  ELSE lines[1]

\* lines.find(line => line.length > originalPrompt.length * 0.8) || lines[0]
PickImprovedLine(lines, originalPrompt) ==
  IF \E i \in 1..Len(lines) : 10 * Len(lines[i]) > 8 * Len(originalPrompt)
  THEN lines[CHOOSE i \in 1..Len(lines) :
                /\ 10 * Len(lines[i]) > 8 * Len(originalPrompt)
                /\ \A k \in 1..(i - 1) : ~(10 * Len(lines[k]) > 8 * Len(originalPrompt))]
  ELSE lines[1]

\* the caller's tags put before the heuristic tags
createFallbackOutput_CallerTagsFirst(v, r, originalPrompt, codexOutput, hasTags, tags) ==
  LET identifiedRisks == Risks[v, originalPrompt]
      lines == Lines[codexOutput]
  IN [ improvedPrompt |-> IF Len(lines) > 0 THEN PickImprovedLine(lines, originalPrompt)
                          ELSE originalPrompt,
       rationale |-> FallbackRationale,
       risks |-> IF Len(identifiedRisks) > 0 THEN identifiedRisks
                 ELSE <<"Verificar implementação cuidadosamente">>,
       tags |-> Slice((IF hasTags THEN tags ELSE <<>>) \o Suggested[v, r, originalPrompt],
                      TagCap),
       metadata |-> getTemplateMetadata(r, Template[originalPrompt]) ]

\* createFallbackOutput(originalPrompt, codexOutput, _context, tags)
createFallbackOutput(v, r, originalPrompt, codexOutput, hasTags, tags) ==
  LET template == Template[originalPrompt]
      suggestedTags == Suggested[v, r, originalPrompt]
      identifiedRisks == Risks[v, originalPrompt]
      lines == Lines[codexOutput]
  IN [ improvedPrompt |-> IF Len(lines) > 0 THEN PickImprovedLine(lines, originalPrompt)
                          ELSE originalPrompt,
       rationale |-> FallbackRationale,
       risks |-> IF Len(identifiedRisks) > 0 THEN identifiedRisks
                 ELSE <<"Verificar implementação cuidadosamente">>,
       tags |-> Slice(suggestedTags \o (IF hasTags THEN tags ELSE <<>>), TagCap),
       metadata |-> getTemplateMetadata(r, template) ]

OfflineRisk == "Codex CLI indisponível - usando análise offline"
OfflineNote == "\n\n[NOTA: Prompt processado em modo offline devido a erro no Codex CLI]"

ErrorRationale(error) ==
  "Não foi possível conectar com o Codex CLI (" \o error.message
  \o "). Utilizando análise local baseada em templates."

\* the markers appended after the other tags, where the cap can cut them
createErrorFallbackOutput_MarkersLast(v, r, originalPrompt, error, hasTags, tags) ==
  [ improvedPrompt |-> originalPrompt \o OfflineNote,
    rationale |-> ErrorRationale(error),
    risks |-> <<OfflineRisk>> \o Risks[v, originalPrompt],
    tags |-> Slice(Suggested[v, r, originalPrompt] \o (IF hasTags THEN tags ELSE <<>>)
                   \o <<"fallback", "offline">>, TagCap),
    metadata |-> getTemplateMetadata(r, Template[originalPrompt]) ]

\* the advisory left out of the risks
createErrorFallbackOutput_NoAdvisory(v, r, originalPrompt, error, hasTags, tags) ==
  [ improvedPrompt |-> originalPrompt \o OfflineNote,
    rationale |-> ErrorRationale(error),
    risks |-> Risks[v, originalPrompt],
    tags |-> Slice(<<"fallback", "offline">> \o Suggested[v, r, originalPrompt]
                   \o (IF hasTags THEN tags ELSE <<>>), TagCap),
    metadata |-> getTemplateMetadata(r, Template[originalPrompt]) ]

\* createErrorFallbackOutput(originalPrompt, error, _context, tags)
createErrorFallbackOutput(v, r, originalPrompt, error, hasTags, tags) ==
  LET template == Template[originalPrompt]
      suggestedTags == Suggested[v, r, originalPrompt]
      identifiedRisks == Risks[v, originalPrompt]
  IN [ improvedPrompt |-> originalPrompt \o OfflineNote,
       rationale |-> ErrorRationale(error),
       risks |-> <<OfflineRisk>> \o identifiedRisks,
       tags |-> Slice(<<"fallback", "offline">> \o suggestedTags
                      \o (IF hasTags THEN tags ELSE <<>>), TagCap),
       metadata |-> getTemplateMetadata(r, template) ]

DefaultRationale == "Prompt processado com refinamento automático."

\* a pass that marks every text it lets through
EnrichText_Stamped(text, default) ==
  IF text = "" \/ Trim(text) = "" THEN default ELSE text \o " [ok]"

\* the test inverted: a text that is present is the one replaced
EnrichText_Inverted(text, default) ==
  IF text = "" \/ Trim(text) = "" THEN text ELSE default

\* if (!text || !text.trim()) text = default
EnrichText(text, default) ==
  IF text = "" \/ Trim(text) = "" THEN default ELSE text

\* enrichOutput(result, originalPrompt)
enrichOutput(v, r, result, originalPrompt) ==
  [ improvedPrompt |-> EnrichText(result.improvedPrompt, originalPrompt),
    rationale |-> EnrichText(result.rationale, DefaultRationale),
    risks |-> IF Len(result.risks) = 0 THEN <<"Validar implementação cuidadosamente">>
              ELSE result.risks,
    tags |-> IF Len(result.tags) = 0 THEN Suggested[v, r, originalPrompt] ELSE result.tags,
    metadata |->
      [ sections |-> IF Len(result.metadata.sections) = 0 THEN DefaultSections
                     ELSE result.metadata.sections,
        acceptanceCriteria |->
          IF Len(result.metadata.acceptanceCriteria) = 0
          THEN <<"Solução implementada corretamente", "Testes executados com sucesso",
                 "Documentação atualizada">>
          ELSE result.metadata.acceptanceCriteria,
        checklist |->
          IF Len(result.metadata.checklist) = 0
          THEN <<"Revisar requisitos", "Implementar solução", "Executar testes",
                 "Validar resultado">>
          ELSE result.metadata.checklist ] ]

\* getTemplateMetadata hands out template.sections itself, not a copy: whether the
\* section list of a result built for templateName is the rule document's own array
SharedSections(r, templateName) ==
  /\ templateName \in DOMAIN r.templates
  /\ "sections" \in DOMAIN r.templates[templateName]

\* an empty section list filled in place (result.metadata.sections.push(...))
enrichOutputAppends_InPlace(result) ==
  IF Len(result.metadata.sections) = 0 THEN DefaultSections ELSE <<>>

\* the elements enrichOutput adds to the array result.metadata.sections refers to: it
\* assigns the property a new array and never writes into the one it found
enrichOutputAppends(result) == <<>>

\* the rule document once `appended` has been added to the array handed out for
\* templateName
RulesAfterAppend(r, templateName, appended) ==
  IF SharedSections(r, templateName) /\ appended # <<>>
  THEN [r EXCEPT !.templates[templateName].sections = @ \o appended]
  ELSE r

(***************************************************************************)
(* server.ts: the refine_prompt handler                                    *)
(***************************************************************************)

\* the prompt trimmed before its length is tested
SchemaAcceptsInput_Trimmed(input) ==
  /\ ~input.isNull
  /\ input.promptKind = "string"
  /\ Len(Trim(input.prompt)) >= 1

\* RefinePromptInputSchema.parse(input) succeeds
SchemaAcceptsInput(input) ==
  /\ ~input.isNull
  /\ input.promptKind = "string"
  /\ Len(input.prompt) >= 1

\* the message of the ZodError raised for a rejected input
ValidationMessage(input) ==
  IF input.isNull THEN "Expected object, received null"
  ELSE IF input.promptKind = "missing" THEN "Required"
  ELSE IF input.promptKind = "number" THEN "Expected string, received number"
  ELSE "Prompt não pode estar vazio"

\* createErrorFallback(input) runs to completion: input.prompt is read and lowered
FallbackBuildable(input) == ~input.isNull /\ input.promptKind = "string"

\* the caller's tags left out of the fallback
createErrorFallback_DropsCallerTags(v, r, input) ==
  [ original_prompt |-> input.prompt,
    improved_prompt |-> input.prompt \o "\n\n[NOTA: Prompt processado em modo offline]",
    rationale |-> "Processamento realizado localmente devido a erro no sistema principal.",
    risks |-> <<"Sistema de refinamento offline">> \o Risks[v, input.prompt],
    tags |-> <<"fallback">> \o Suggested[v, r, input.prompt],
    metadata |-> [ sections |-> DefaultSections,
                   acceptance_criteria |-> <<"Validar funcionamento", "Testar implementação">>,
                   checklist |-> <<"Revisar erro", "Tentar novamente", "Usar alternativa">> ],
    codex_available |-> FALSE,
    fallback_mode |-> TRUE ]

\* createErrorFallback(input)
createErrorFallback(v, r, input) ==
  [ original_prompt |-> input.prompt,
    improved_prompt |-> input.prompt \o "\n\n[NOTA: Prompt processado em modo offline]",
    rationale |-> "Processamento realizado localmente devido a erro no sistema principal.",
    risks |-> <<"Sistema de refinamento offline">> \o Risks[v, input.prompt],
    tags |-> <<"fallback">> \o Suggested[v, r, input.prompt]
             \o (IF input.hasTags THEN input.tags ELSE <<>>),
    metadata |-> [ sections |-> DefaultSections,
                   acceptance_criteria |-> <<"Validar funcionamento", "Testar implementação">>,
                   checklist |-> <<"Revisar erro", "Tentar novamente", "Usar alternativa">> ],
    codex_available |-> FALSE,
    fallback_mode |-> TRUE ]

\* formatMCPResponse(refinedOutput, originalInput)
formatMCPResponse(refinedOutput, originalInput, available) ==
  [ success |-> TRUE,
    original_prompt |-> originalInput.prompt,
    improved_prompt |-> refinedOutput.improvedPrompt,
    rationale |-> refinedOutput.rationale,
    risks |-> refinedOutput.risks,
    tags |-> refinedOutput.tags,
    metadata |-> [ sections |-> refinedOutput.metadata.sections,
                   acceptance_criteria |-> refinedOutput.metadata.acceptanceCriteria,
                   checklist |-> refinedOutput.metadata.checklist ],
    codex_available |-> available ]

(***************************************************************************)
(* State                                                                   *)
(***************************************************************************)

VARIABLES
  engine,            \* which TemplateManager version is linked
  rules,             \* TemplateManager.rules
  isCodexAvailable,  \* PromptEngineerMCPServer.isCodexAvailable
  req,               \* per call: the input of handleRefinePrompt
  pc,                \* per call: "idle", "awaiting", "responded", "threw"
  proc,              \* per call: the child process
  stdout,            \* per call: executeCodexCommand's stdout buffer
  stderr,            \* per call: executeCodexCommand's stderr buffer
  timer,             \* per call: "unset", "armed", "fired", "cleared"
  promise,           \* per call: the promise of executeCodexCommand
  result,            \* per call: what runCodexCLI returned
  response,          \* per call: what handleRefinePrompt returned
  path,              \* per call: the branch of runCodexCLI that produced the result
  enriched,          \* per call: whether the result passed through enrichOutput
  engineCall,        \* the last direct call of a templateManager method, and its value
  ruleFile,          \* what reading and parsing rules/prompt_rules.yaml came to
  ai,                \* the RefinePromptTool.execute call and its refineWithAI child
  probe              \* the constructor's checkCodexAvailability() call and its promise

vars == << engine, rules, isCodexAvailable, probe, req, pc, proc, stdout,
           stderr, timer, promise, result, response, path, enriched, engineCall,
           ruleFile, ai >>

\* what no step of a refine_prompt call writes
configVars == << engine, rules, isCodexAvailable, probe, engineCall, ruleFile, ai >>
callVars == << req, pc >>

NoEngineCall == [method |-> "none", prompt |-> "", value |-> ""]
invokerVars == << proc, stdout, stderr, timer, promise >>
outcomeVars == << result, response, path, enriched >>

NoProcess ==
  [ spawned |-> FALSE, command |-> "", args |-> <<>>, stdin |-> "", plan |-> NoPlan,
    outIdx |-> 0, errIdx |-> 0, errorEmitted |-> FALSE, closed |-> FALSE,
    exitCode |-> "", signals |-> <<>>, spawns |-> 0 ]

PendingPromise == [state |-> "pending", value |-> "", error |-> NoError]

\* the promise of refineWithAI before it settles; it resolves with an object
PendingAIPromise == [state |-> "pending", value |-> NoResult, error |-> NoError]

\* checkCodexAvailability() as the constructor leaves it: started, not awaited, waiting
\* for testCodexAvailability's executeCodexCommand to settle
StartupProbe == [pc |-> "awaiting", promise |-> PendingPromise]

NoOutcome == [kind |-> "none", value |-> NoResult, message |-> ""]

\* the state of a RefinePromptTool.execute call before it starts
NoAICall ==
  [ mock |-> "", hasProvider |-> FALSE, provider |-> "", hasModel |-> FALSE, model |-> "",
    prompt |-> "", context |-> "", pc |-> "idle", child |-> NoProcess,
    stdout |-> "", stderr |-> "", promise |-> PendingAIPromise, outcome |-> NoOutcome ]

InitCalls(ids) ==
  /\ req \in [ids -> Requests]
  /\ pc = [c \in ids |-> "idle"]
  /\ proc = [c \in ids |-> NoProcess]
  /\ stdout = [c \in ids |-> ""]
  /\ stderr = [c \in ids |-> ""]
  /\ timer = [c \in ids |-> "unset"]
  /\ promise = [c \in ids |-> PendingPromise]
  /\ result = [c \in ids |-> NoResult]
  /\ response = [c \in ids |-> NoResponse]
  /\ path = [c \in ids |-> "none"]
  /\ enriched = [c \in ids |-> FALSE]

Init ==
  /\ engine \in Engines
  /\ ruleFile \in RuleFileOutcomes
  /\ rules = loadRules(ruleFile)
  /\ isCodexAvailable = FALSE
  /\ probe = StartupProbe
  /\ engineCall = NoEngineCall
  /\ ai = NoAICall
  /\ InitCalls(CallIds)

(***************************************************************************)
(* Actions                                                                 *)
(***************************************************************************)

\* a rejection that overwrites an earlier settlement
Reject_LastWins(p, error) == [state |-> "rejected", value |-> "", error |-> error]

\* reject(error) and resolve(value) of a promise: only the first settlement counts
Reject(p, error) ==
  IF p.state = "pending" THEN [p EXCEPT !.state = "rejected", !.error = error] ELSE p

\* a settlement that overwrites an earlier one
Resolve_LastWins(p, value) == [state |-> "resolved", value |-> value, error |-> NoError]

Resolve(p, value) ==
  IF p.state = "pending" THEN [state |-> "resolved", value |-> value, error |-> NoError] ELSE p

\* handleRefinePrompt on an input the schema rejects: the catch block builds the
\* error response with its fallback, or throws while building it
HandleInvalid(c) ==
  /\ pc[c] = "idle"
  /\ ~SchemaAcceptsInput(req[c])
  /\ IF FallbackBuildable(req[c])
     THEN /\ response' = [response EXCEPT ![c] =
                 [ kind |-> "error",
                   error |-> "Erro ao processar solicitação de refinamento",
                   message |-> ValidationMessage(req[c]),
                   fallback |-> createErrorFallback(engine, rules, req[c]) ]]
          /\ pc' = [pc EXCEPT ![c] = "responded"]
     ELSE /\ response' = [response EXCEPT ![c] = [kind |-> "thrown", message |-> "TypeError"]]
          /\ pc' = [pc EXCEPT ![c] = "threw"]
  /\ UNCHANGED << configVars, req, invokerVars, result, path, enriched >>

\* an availability probe spawned ahead of the run, on every call
Spawn_ProbeFirst(r, p, input, plan) ==
  [ NoProcess EXCEPT
      !.spawned = TRUE,
      !.command = "codex",
      !.args = <<"chat", "-m", "gpt-5">>,
      !.stdin = StdinInput(formatSystemPrompt(r, input.context),
                           buildPromptForCodex(input.prompt, input.context,
                                               input.hasTags, input.tags)),
      !.plan = plan,
      !.spawns = p.spawns + 2 ]

\* spawn('codex', args) and the stdin write of executeCodexCommand, for a call whose
\* process record is p; spawns counts the processes spawned for the call
Spawn(r, p, input, plan) ==
  [ NoProcess EXCEPT
      !.spawned = TRUE,
      !.command = "codex",
      !.args = <<"chat", "-m", "gpt-5">>,
      !.stdin = StdinInput(formatSystemPrompt(r, input.context),
                           buildPromptForCodex(input.prompt, input.context,
                                               input.hasTags, input.tags)),
      !.plan = plan,
      !.spawns = p.spawns + 1 ]

\* handleRefinePrompt on a valid input, up to the await in runCodexCLI:
\* executeCodexCommand spawns the child, writes and ends stdin, arms the timer
StartCall(c, plans) ==
  /\ pc[c] = "idle"
  /\ SchemaAcceptsInput(req[c])
  /\ \E plan \in plans : proc' = [proc EXCEPT ![c] = Spawn(rules, @, req[c], plan)]
  /\ timer' = [timer EXCEPT ![c] = "armed"]
  /\ pc' = [pc EXCEPT ![c] = "awaiting"]
  /\ UNCHANGED << configVars, req, stdout, stderr, promise, outcomeVars >>

HandleValid(c) == StartCall(c, Plans)

\* one stdout buffer shared by all calls in flight
StdoutData_SharedBuffer(c) ==
  /\ proc[c].spawned /\ ~proc[c].closed /\ proc[c].plan.kind = "run"
  /\ proc[c].outIdx < Len(proc[c].plan.out)
  /\ stdout' = [d \in DOMAIN stdout |-> stdout[d] \o proc[c].plan.out[proc[c].outIdx + 1]]
  /\ proc' = [proc EXCEPT ![c].outIdx = @ + 1]
  /\ UNCHANGED << configVars, req, pc, stderr, timer, promise, outcomeVars >>

\* codexProcess.stdout.on('data')
StdoutData(c) ==
  /\ proc[c].spawned /\ ~proc[c].closed /\ proc[c].plan.kind = "run"
  /\ proc[c].outIdx < Len(proc[c].plan.out)
  /\ stdout' = [stdout EXCEPT ![c] = @ \o proc[c].plan.out[proc[c].outIdx + 1]]
  /\ proc' = [proc EXCEPT ![c].outIdx = @ + 1]
  /\ UNCHANGED << configVars, req, pc, stderr, timer, promise, outcomeVars >>

\* codexProcess.stderr.on('data')
StderrData(c) ==
  /\ proc[c].spawned /\ ~proc[c].closed /\ proc[c].plan.kind = "run"
  /\ proc[c].errIdx < Len(proc[c].plan.err)
  /\ stderr' = [stderr EXCEPT ![c] = @ \o proc[c].plan.err[proc[c].errIdx + 1]]
  /\ proc' = [proc EXCEPT ![c].errIdx = @ + 1]
  /\ UNCHANGED << configVars, req, pc, stdout, timer, promise, outcomeVars >>

\* codexProcess.on('error'): the child could not be started
SpawnError(c) ==
  /\ proc[c].spawned /\ ~proc[c].closed /\ proc[c].plan.kind = "spawnfail"
  /\ ~proc[c].errorEmitted
  /\ promise' = [promise EXCEPT ![c] = Reject(@, SpawnErrorOf(proc[c].plan.msg))]
  /\ proc' = [proc EXCEPT ![c].errorEmitted = TRUE]
  /\ UNCHANGED << configVars, req, pc, stdout, stderr, timer, outcomeVars >>

\* the statuses the child can close with in its current state
CloseCodes(p) ==
  IF p.plan.kind = "spawnfail"
  THEN (IF p.errorEmitted THEN {p.plan.exit} ELSE {})
  ELSE (IF p.plan.exit # "hang" /\ p.outIdx = Len(p.plan.out) /\ p.errIdx = Len(p.plan.err)
        THEN {p.plan.exit} ELSE {})
       \cup (IF p.signals # <<>> /\ ~p.plan.ignoresTerm THEN {"null"} ELSE {})

\* a close handler that settles whatever the promise already holds
SettleOnClose_Overwrites(p, code, out, err) ==
  IF code = "0" THEN [state |-> "resolved", value |-> Trim(out), error |-> NoError]
  ELSE [state |-> "rejected", value |-> "", error |-> ExitErrorOf(code, err)]

\* the status tested for falsiness: a null status taken for success
SettleOnClose_FalsyCode(p, code, out, err) ==
  IF code \in {"0", "null"} THEN Resolve(p, Trim(out)) ELSE Reject(p, ExitErrorOf(code, err))

\* the first 'close' handler: settle the promise by the exit status
SettleOnClose(p, code, out, err) ==
  IF code = "0" THEN Resolve(p, Trim(out)) ELSE Reject(p, ExitErrorOf(code, err))

\* a close that leaves the timer running
ClearTimeout_Forgotten(t) == t

\* the second 'close' handler: clearTimeout(timeout)
ClearTimeout(t) == IF t = "armed" THEN "cleared" ELSE t

\* codexProcess.on('close'), both handlers
Close(c) ==
  /\ proc[c].spawned /\ ~proc[c].closed
  /\ \E code \in CloseCodes(proc[c]) :
       /\ promise' = [promise EXCEPT ![c] = SettleOnClose(@, code, stdout[c], stderr[c])]
       /\ proc' = [proc EXCEPT ![c].closed = TRUE, ![c].exitCode = code]
  /\ timer' = [timer EXCEPT ![c] = ClearTimeout(@)]
  /\ UNCHANGED << configVars, req, pc, stdout, stderr, outcomeVars >>

\* a timeout taken for the end of the output: the callback resolves with nothing
SettleOnTimeout_Resolves(p) == Resolve(p, "")

\* the callback kills the child and leaves the promise alone
SettleOnTimeout_KillOnly(p) == p

\* the promise after the timeout callback ran
SettleOnTimeout(p) == Reject(p, TimeoutError)

\* the setTimeout callback: kill('SIGTERM') and reject.  A child that failed to start
\* emits 'error' and 'close' in the ticks that follow spawn, before any timer runs.
TimerFire(c) ==
  /\ timer[c] = "armed"
  /\ proc[c].plan.kind = "run"
  /\ proc' = [proc EXCEPT ![c].signals = Append(@, "SIGTERM")]
  /\ promise' = [promise EXCEPT ![c] = SettleOnTimeout(@)]
  /\ timer' = [timer EXCEPT ![c] = "fired"]
  /\ UNCHANGED << configVars, req, pc, stdout, stderr, outcomeVars >>

\* the result returned as reconciled, without the enrichment pass
RefineFromOutput_SkipsEnrich(v, r, input, codexOutput) ==
  LET parsed == Parsed[codexOutput]
  IN [ path |-> IF parsed.ok THEN "json" ELSE "reconciler",
       enriched |-> FALSE,
       value |-> IF parsed.ok THEN parsed.value
                 ELSE createFallbackOutput(v, r, input.prompt, codexOutput,
                                           input.hasTags, input.tags) ]

\* runCodexCLI after a fulfilled await: reconcile, then enrich
RefineFromOutput(v, r, input, codexOutput) ==
  LET parsed == Parsed[codexOutput]
      res == IF parsed.ok THEN parsed.value
             ELSE createFallbackOutput(v, r, input.prompt, codexOutput, input.hasTags, input.tags)
  IN [ path |-> IF parsed.ok THEN "json" ELSE "reconciler",
       enriched |-> TRUE,
       value |-> enrichOutput(v, r, res, input.prompt) ]

\* runCodexCLI after a rejected await: the catch block
RefineFromError(v, r, input, error) ==
  [ path |-> "error",
    enriched |-> FALSE,
    value |-> createErrorFallbackOutput(v, r, input.prompt, error, input.hasTags, input.tags) ]

\* no catch block: the rejection leaves runCodexCLI as it came
runCodexCLI_NoCatch(v, r, input, p) ==
  IF p.state = "resolved" THEN RefineFromOutput(v, r, input, p.value)
  ELSE [path |-> "rejected", enriched |-> FALSE, value |-> NoResult]

\* runCodexCLI from the await on, for a settled promise p
runCodexCLI(v, r, input, p) ==
  IF p.state = "resolved" THEN RefineFromOutput(v, r, input, p.value)
  ELSE RefineFromError(v, r, input, p.error)

\* a catch block that puts the built-in rules back, as loadRules does in its own
runCodexCLIRules_ResetOnError(v, r, input, p) ==
  IF p.state = "rejected" THEN DefaultRules ELSE r

\* the rule document after runCodexCLI ran for a settled promise p: the one result that
\* shares an array with it is the reconciler's fallback, which goes through enrichOutput
runCodexCLIRules(v, r, input, p) ==
  IF p.state = "resolved" /\ ~Parsed[p.value].ok
  THEN RulesAfterAppend(r, Template[input.prompt],
         enrichOutputAppends(createFallbackOutput(v, r, input.prompt, p.value,
                                                  input.hasTags, input.tags)))
  ELSE r

\* the continuation of runCodexCLI and of handleRefinePrompt once the promise settled
Resume(c) ==
  /\ pc[c] = "awaiting"
  /\ promise[c].state # "pending"
  /\ LET out == runCodexCLI(engine, rules, req[c], promise[c]) IN
       /\ result' = [result EXCEPT ![c] = out.value]
       /\ path' = [path EXCEPT ![c] = out.path]
       /\ enriched' = [enriched EXCEPT ![c] = out.enriched]
       /\ response' = [response EXCEPT ![c] =
            [ kind |-> "success",
              body |-> formatMCPResponse(out.value, req[c], isCodexAvailable) ]]
  /\ rules' = runCodexCLIRules(engine, rules, req[c], promise[c])
  /\ pc' = [pc EXCEPT ![c] = "responded"]
  /\ UNCHANGED << engine, isCodexAvailable, probe, engineCall, ruleFile, ai, req, invokerVars >>

Next ==
  \/ \E c \in DOMAIN pc : HandleInvalid(c)
  \/ \E c \in DOMAIN pc : HandleValid(c)
  \/ \E c \in DOMAIN pc : StdoutData(c)
  \/ \E c \in DOMAIN pc : StderrData(c)
  \/ \E c \in DOMAIN pc : SpawnError(c)
  \/ \E c \in DOMAIN pc : Close(c)
  \/ \E c \in DOMAIN pc : TimerFire(c)
  \/ \E c \in DOMAIN pc : Resume(c)

Spec == Init /\ [][Next]_vars

\* the event loop runs every ready callback: a due timer fires, a child's error and
\* close events are delivered, and a settled promise's continuation runs
Fairness ==
  \A c \in CallIds :
    /\ WF_vars(SpawnError(c))
    /\ WF_vars(Close(c))
    /\ WF_vars(TimerFire(c))
    /\ WF_vars(Resume(c))

FairSpec == Spec /\ Fairness

(***************************************************************************)
(* Two refine_prompt calls in flight at once                               *)
(***************************************************************************)

ConcurrentCallIds == {"c1", "c2"}

ConcurrentRequests ==
  { StringInput("hello", FALSE, <<>>, ""),
    StringInput("dados api", TRUE, <<"api", "rest">>, ""),
    StringInput("", FALSE, <<>>, "") }

ConcurrentPlans ==
  { RunPlan(<<"ok">>, <<>>, "0", FALSE),
    RunPlan(<<DocB>>, <<>>, "0", FALSE),
    RunPlan(<<DocB>>, <<"warn", "ing">>, "2", FALSE),
    RunPlan(<<>>, <<>>, "hang", FALSE),
    SpawnFailPlan }

ConcurrentInit ==
  /\ engine \in Engines
  /\ ruleFile \in RuleFileOutcomes
  /\ rules = loadRules(ruleFile)
  /\ isCodexAvailable = FALSE
  /\ probe = StartupProbe
  /\ engineCall = NoEngineCall
  /\ ai = NoAICall
  /\ InitCalls(ConcurrentCallIds)
  /\ \A c \in ConcurrentCallIds : req[c] \in ConcurrentRequests

ConcurrentNext ==
  \/ \E c \in DOMAIN pc : HandleInvalid(c)
  \/ \E c \in DOMAIN pc : StartCall(c, ConcurrentPlans)
  \/ \E c \in DOMAIN pc : StdoutData(c)
  \/ \E c \in DOMAIN pc : StderrData(c)
  \/ \E c \in DOMAIN pc : SpawnError(c)
  \/ \E c \in DOMAIN pc : Close(c)
  \/ \E c \in DOMAIN pc : TimerFire(c)
  \/ \E c \in DOMAIN pc : Resume(c)

ConcurrentSpec == ConcurrentInit /\ [][ConcurrentNext]_vars

(***************************************************************************)
(* The template engine called directly, method by method                   *)
(***************************************************************************)

EngineInit ==
  /\ engine \in Engines
  /\ ruleFile \in RuleFileOutcomes
  /\ \/ rules = loadRules(ruleFile)
     \/ ruleFile = "parsed" /\ rules \in {PartialRules, EmptySectionsRules}
  /\ isCodexAvailable = FALSE
  /\ probe = StartupProbe
  /\ engineCall = NoEngineCall
  /\ ai = NoAICall
  /\ InitCalls({})

\* templateManager.detectTemplate(prompt)
CallDetectTemplate ==
  /\ \E p \in EnginePrompts :
       engineCall' = [method |-> "detectTemplate", prompt |-> p, value |-> detectTemplate(p)]
  /\ UNCHANGED << engine, rules, isCodexAvailable, probe, ruleFile, ai, callVars, invokerVars, outcomeVars >>

\* templateManager.suggestTags(prompt)
CallSuggestTags ==
  /\ \E p \in EnginePrompts :
       engineCall' = [method |-> "suggestTags", prompt |-> p,
                      value |-> suggestTags(engine, rules, p)]
  /\ UNCHANGED << engine, rules, isCodexAvailable, probe, ruleFile, ai, callVars, invokerVars, outcomeVars >>

\* templateManager.identifyRisks(prompt)
CallIdentifyRisks ==
  /\ \E p \in EnginePrompts :
       engineCall' = [method |-> "identifyRisks", prompt |-> p,
                      value |-> identifyRisks(engine, p)]
  /\ UNCHANGED << engine, rules, isCodexAvailable, probe, ruleFile, ai, callVars, invokerVars, outcomeVars >>

\* templateManager.getTemplateMetadata(templateName)
CallGetTemplateMetadata ==
  /\ \E t \in TemplateNames :
       engineCall' = [method |-> "getTemplateMetadata", prompt |-> t,
                      value |-> getTemplateMetadata(rules, t)]
  /\ UNCHANGED << engine, rules, isCodexAvailable, probe, ruleFile, ai, callVars, invokerVars, outcomeVars >>

\* createErrorFallbackOutput(prompt, error, context, tags) after a failed spawn
CallCreateErrorFallbackOutput ==
  /\ \E p \in EnginePrompts, t \in TagInputs, plan \in {SpawnFailPlan, SpawnDeniedPlan} :
       engineCall' = [method |-> "createErrorFallbackOutput", prompt |-> p,
                      value |-> createErrorFallbackOutput(engine, rules, p,
                                  SpawnErrorOf(plan.msg), t.has, t.tags)]
  /\ UNCHANGED << engine, rules, isCodexAvailable, probe, ruleFile, ai, callVars, invokerVars, outcomeVars >>

\* results with every combination of empty and non-empty fields
EnrichInputs ==
  { [ improvedPrompt |-> i, rationale |-> ra, risks |-> ri, tags |-> t,
      metadata |-> [sections |-> m[1], acceptanceCriteria |-> m[2], checklist |-> m[3]] ] :
      i \in {"", " ", "x"}, ra \in {"", "\n", "y"}, ri \in {<<>>, <<"r1">>},
      t \in {<<>>, <<"t1">>},
      m \in { <<(<<>>), (<<>>), (<<>>)>>, <<(<<>>), <<"a1">>, <<"c1">> >>,
              << <<"s1">>, <<"a1">>, (<<>>)>>, << <<"s1">>, <<"a1">>, <<"c1">> >> } }

EnrichPrompts == {" ", "hello", "dados api"}

\* enrichOutput(result, originalPrompt)
CallEnrichOutput ==
  /\ \E res \in EnrichInputs, p \in EnrichPrompts :
       engineCall' = [method |-> "enrichOutput", prompt |-> p,
                      value |-> enrichOutput(engine, rules, res, p)]
  /\ UNCHANGED << engine, rules, isCodexAvailable, probe, ruleFile, ai, callVars, invokerVars, outcomeVars >>

\* the promises runCodexCLI is resumed with: a malformed output, a valid one, a failed spawn
SettledPromises ==
  { Resolve(PendingPromise, "ok"), Resolve(PendingPromise, DocB),
    Reject(PendingPromise, SpawnErrorOf(SpawnFailPlan.msg)) }

\* a whole refinement, runCodexCLI(prompt) from its await on
CallRunCodexCLI ==
  /\ \E p \in EnrichPrompts, s \in SettledPromises :
       LET input == StringInput(p, FALSE, <<>>, "") IN
         /\ engineCall' = [method |-> "runCodexCLI", prompt |-> p,
                           value |-> runCodexCLI(engine, rules, input, s).value]
         /\ rules' = runCodexCLIRules(engine, rules, input, s)
  /\ UNCHANGED << engine, isCodexAvailable, probe, ruleFile, ai, callVars, invokerVars, outcomeVars >>

EngineNext ==
  \/ CallDetectTemplate
  \/ CallSuggestTags
  \/ CallIdentifyRisks
  \/ CallGetTemplateMetadata
  \/ CallCreateErrorFallbackOutput
  \/ CallEnrichOutput
  \/ CallRunCodexCLI

EngineSpec == EngineInit /\ [][EngineNext]_vars

(***************************************************************************)
(* ai-providers.ts: refineWithAI, and RefinePromptTool of server.ts, the   *)
(* refine_prompt tool that selects a provider and a model                  *)
(***************************************************************************)

\* mockResponse.  A TLA+ string holds no grave accent: the grave accents of the source's
\* texts, here and in the code fence below, are written as apostrophes.
MockResponse ==
  [ improvedPrompt |-> "Create a robust Node.js script that reads data from a CSV file named 'input.csv'. The script must validate each row against a predefined schema (e.g., 'id' is a number, 'email' is a valid email format). Valid rows should be inserted into a PostgreSQL table named 'customers'. Invalid rows should be logged to a file named 'error.log' with clear error messages. The database connection details should be configurable via environment variables (PG_HOST, PG_USER, PG_PASSWORD, PG_DATABASE).",
    rationale |-> "The original prompt was vague. This version specifies file names, validation rules, error handling, and configuration methods, making it an actionable and complete task for an AI or developer.",
    risks |-> << "The CSV file might be very large, potentially causing memory issues. Consider stream processing.",
                 "Database credentials will be used; ensure they are handled securely and not hard-coded.",
                 "The script assumes the PostgreSQL table 'customers' already exists with the correct schema." >>,
    tags |-> <<"nodejs", "csv", "postgres", "validation", "etl">>,
    metadata |->
      [ sections |-> <<"CSV Parsing", "Data Validation", "Database Insertion", "Error Logging",
                       "Configuration">>,
        acceptanceCriteria |->
          << "The script runs without errors given a valid 'input.csv' and database connection.",
             "All valid rows from 'input.csv' are present in the 'customers' table.",
             "All invalid rows are logged with specific reasons in 'error.log'.",
             "No database credentials are visible in the source code." >>,
        checklist |->
          << "1. Implement a function to read and parse 'input.csv' row by row.",
             "2. Define a validation schema for the CSV data.",
             "3. Create a function to validate a single row against the schema.",
             "4. Set up a connection to the PostgreSQL database using environment variables.",
             "5. Write a function to insert a valid data row into the 'customers' table.",
             "6. Implement a logging mechanism to write errors to 'error.log'.",
             "7. Combine all parts in a main function that orchestrates the ETL process." >> ] ]

AIProviders == {"codex", "gemini"}

\* provider: z.enum(['codex', 'gemini']).optional().default('codex')
SelectedProvider(hasProvider, provider) == IF hasProvider THEN provider ELSE "codex"

\* the command of the switch on the provider
ProviderCommand(provider) == IF provider = "gemini" THEN "gemini" ELSE "codex"

ProviderDefaultModel(provider) == IF provider = "gemini" THEN "gemini-pro" ELSE "gpt-5"

\* the default model whatever the caller asked for
ModelOrDefault_DefaultOnly(hasModel, model, default) == default

\* model || default: an absent model and the empty string are both falsy
ModelOrDefault(hasModel, model, default) ==
  IF hasModel /\ model # "" THEN model ELSE default

\* the args of the switch on the provider
ProviderArgs(provider, hasModel, model) ==
  <<"chat", "-m", ModelOrDefault(hasModel, model, ProviderDefaultModel(provider)),
    "--format", "json">>

\* getAIMasterPrompt(rawPrompt, context): the outbound payload, a fixed instruction
\* header, the original prompt, the optional context block and the output format
getAIMasterPrompt(rawPrompt, context) ==
  DefaultRules.main_refiner \o "\n\n" \o rawPrompt
    \o (IF context # "" THEN "\n\nCONTEXT:\n" \o context ELSE "")
    \o "\n\n" \o OutputFormatSpec

\* RefinedPromptSchema.safeParse(parsedJson).success: the shape of CodexOutputSchema
RefinedPromptSchemaAccepts(j) == SchemaAccepts(j)

\* validationResult.data
RefinedPromptSchemaValue(j) == SchemaValue(j)

FenceOpen == "'''json\n"
FenceClose == "\n'''"

\* String.prototype.indexOf(k, from), 1-based; 0 when k does not occur from there on
IndexOfFrom(s, k, from) ==
  LET i == IndexOf(SubSeq(s, from, Len(s)), k) IN IF i = 0 THEN 0 ELSE from + i - 1

\* the first alternative of the pattern, '''json\n([\s\S]*?)\n''': the first opening
\* fence that a closing fence follows, and the text up to the nearest closing fence
MatchFence(s) ==
  LET open == IndexOf(s, FenceOpen)
      start == open + Len(FenceOpen)
      close == IF open = 0 THEN 0 ELSE IndexOfFrom(s, FenceClose, start)
  IN IF open = 0 \/ close = 0 THEN [found |-> FALSE, at |-> 0, text |-> ""]
     ELSE [found |-> TRUE, at |-> open, text |-> SubSeq(s, start, close - 1)]

\* stdout.match(/'''json\n([\s\S]*?)\n'''|({[\s\S]*})/): the leftmost match, of the
\* fence or of the span from the first "{" to the last "}"; the group that did not
\* take part is undefined, written ""
MatchProviderJSON(s) ==
  LET fence == MatchFence(s)
      brace == MatchJSON(s)
      braceAt == IndexOf(s, "{")
  IN IF fence.found /\ (~brace.found \/ fence.at < braceAt)
     THEN [found |-> TRUE, group1 |-> fence.text, group2 |-> ""]
     ELSE IF brace.found THEN [found |-> TRUE, group1 |-> "", group2 |-> brace.text]
     ELSE [found |-> FALSE, group1 |-> "", group2 |-> ""]

AIError(kind, message) == [name |-> "Error", kind |-> kind, code |-> "undefined", message |-> message]

\* the 'error' handler's rejection
AIStartError(command, message) ==
  AIError("start", "Failed to start " \o command
                     \o " CLI. Is it installed and in your PATH? Error: " \o message)

\* the rejection of a close with a status other than 0
AIExitError(command, code, stderrText) ==
  AIError("exit", command \o " CLI exited with code " \o CodeToString(code) \o ": " \o stderrText)

\* the rejection of the catch block of the 'close' handler
AIParseError(command, errorMessage, stdoutText) ==
  AIError("parse", "Failed to parse " \o command \o " CLI output as JSON. Error: "
                     \o errorMessage \o ". Raw output: " \o stdoutText)

\* the rejection of an output the schema refuses; ZodError stands for the issue list
AIValidationError(command) ==
  AIError("validation", command \o " CLI output failed validation: ZodError")

\* a close handler that parses the output whatever the status
SettleProviderOnClose_IgnoresStatus(p, command, code, out, err) ==
  LET m == MatchProviderJSON(out)
      parsed == JSONParse(IF m.group1 # "" THEN m.group1 ELSE m.group2)
  IN IF m.found /\ parsed.ok /\ RefinedPromptSchemaAccepts(parsed.value)
     THEN Resolve(p, RefinedPromptSchemaValue(parsed.value))
     ELSE Reject(p, AIExitError(command, code, err))

\* the 'close' handler of refineWithAI on the promise p
SettleProviderOnClose(p, command, code, out, err) ==
  IF code # "0" THEN Reject(p, AIExitError(command, code, err))
  ELSE LET m == MatchProviderJSON(out)
           jsonString == IF m.group1 # "" THEN m.group1 ELSE m.group2
           parsed == JSONParse(jsonString)
       IN IF ~m.found THEN Reject(p, AIParseError(command, "No JSON object found in the output.", out))
          ELSE IF ~parsed.ok THEN Reject(p, AIParseError(command, "SyntaxError", out))
          ELSE IF ~RefinedPromptSchemaAccepts(parsed.value)
               THEN Reject(p, AIValidationError(command))
          ELSE Resolve(p, RefinedPromptSchemaValue(parsed.value))

\* the mock switch left off
IsMockMode_Never(value) == FALSE

\* process.env.USE_MOCK_AI === 'true'
IsMockMode(value) == value = "true"

\* values of the environment variable USE_MOCK_AI; "" stands for an unset variable
MockEnvValues == {"", "true", "TRUE"}

ProviderPrompts == {"hello", "Script csv"}

\* the model of a request: absent, empty, or a named model
ModelInputs ==
  { [has |-> FALSE, model |-> ""], [has |-> TRUE, model |-> ""],
    [has |-> TRUE, model |-> "gpt-4o"], [has |-> TRUE, model |-> "gemini-1.5-pro"] }

\* the provider of a request: absent, or one of the enum
ProviderInputs ==
  {[has |-> FALSE, provider |-> ""]} \cup {[has |-> TRUE, provider |-> p] : p \in AIProviders}

ProviderStdoutSamples ==
  { <<>>, <<"ok">>, <<DocB>>, <<"Here: " \o DocB \o " done">>,
    <<FenceOpen \o DocB \o FenceClose>>,
    <<"Result:\n", FenceOpen \o DocB \o FenceClose \o "\nNotes: {none}">>,
    <<"Use {x}: " \o FenceOpen \o DocB \o FenceClose>>,
    <<FenceOpen \o FenceClose>>,
    <<DocB \o "\n" \o DocB>>, <<DocB \o " (see {docs})">>,
    <<DocEmpty>>, <<DocExtra>>, <<DocWrongShape>>, <<DocNotJSON>> }

\* spawn(command, args) when the binary is missing
ProviderSpawnFailPlan(command) ==
  [SpawnFailPlan EXCEPT !.msg = "spawn " \o command \o " ENOENT"]

ProviderPlans(command) ==
  { RunPlan(out, <<>>, "0", FALSE) : out \in ProviderStdoutSamples }
  \cup { ProviderSpawnFailPlan(command),
         RunPlan(<<DocB>>, <<"warn", "ing">>, "2", FALSE),
         RunPlan(<<>>, <<>>, "null", FALSE),
         RunPlan(<<>>, <<>>, "hang", FALSE) }

pipelineVars == << engine, rules, isCodexAvailable, probe, engineCall, ruleFile,
                   callVars, invokerVars, outcomeVars >>

ProviderInit ==
  /\ engine = "simple"
  /\ ruleFile = "missing"
  /\ rules = loadRules(ruleFile)
  /\ isCodexAvailable = FALSE
  /\ probe = StartupProbe
  /\ engineCall = NoEngineCall
  /\ InitCalls({})
  /\ \E mock \in MockEnvValues, p \in ProviderInputs, m \in ModelInputs,
        prompt \in ProviderPrompts, context \in {"", "ctx"} :
       ai = [ NoAICall EXCEPT !.mock = mock, !.hasProvider = p.has, !.provider = p.provider,
                              !.hasModel = m.has, !.model = m.model,
                              !.prompt = prompt, !.context = context ]

\* spawn(command, args), the handlers' buffers, child.stdin.write(masterPrompt) and end()
ProviderSpawn(a, plan) ==
  LET provider == SelectedProvider(a.hasProvider, a.provider) IN
  [ NoProcess EXCEPT
      !.spawned = TRUE,
      !.command = ProviderCommand(provider),
      !.args = ProviderArgs(provider, a.hasModel, a.model),
      !.stdin = getAIMasterPrompt(a.prompt, a.context),
      !.plan = plan,
      !.spawns = a.child.spawns + 1 ]

\* RefinePromptTool.execute up to its await: refineWithAI returns the resolved mock
\* promise when USE_MOCK_AI is 'true', and spawns the provider's CLI otherwise
Execute ==
  /\ ai.pc = "idle"
  /\ IF IsMockMode(ai.mock)
     THEN ai' = [ai EXCEPT !.pc = "awaiting", !.promise = Resolve(@, MockResponse)]
     ELSE \E plan \in ProviderPlans(ProviderCommand(SelectedProvider(ai.hasProvider,
                                                                     ai.provider))) :
            ai' = [ai EXCEPT !.pc = "awaiting", !.child = ProviderSpawn(ai, plan)]
  /\ UNCHANGED pipelineVars

\* child.stdout.on('data')
ProviderStdoutData ==
  /\ ai.child.spawned /\ ~ai.child.closed /\ ai.child.plan.kind = "run"
  /\ ai.child.outIdx < Len(ai.child.plan.out)
  /\ ai' = [ai EXCEPT !.stdout = @ \o ai.child.plan.out[ai.child.outIdx + 1],
                      !.child.outIdx = @ + 1]
  /\ UNCHANGED pipelineVars

\* child.stderr.on('data')
ProviderStderrData ==
  /\ ai.child.spawned /\ ~ai.child.closed /\ ai.child.plan.kind = "run"
  /\ ai.child.errIdx < Len(ai.child.plan.err)
  /\ ai' = [ai EXCEPT !.stderr = @ \o ai.child.plan.err[ai.child.errIdx + 1],
                      !.child.errIdx = @ + 1]
  /\ UNCHANGED pipelineVars

\* child.on('error'): the CLI could not be started
ProviderError ==
  /\ ai.child.spawned /\ ~ai.child.closed /\ ai.child.plan.kind = "spawnfail"
  /\ ~ai.child.errorEmitted
  /\ ai' = [ai EXCEPT !.promise = Reject(@, AIStartError(ai.child.command, ai.child.plan.msg)),
                      !.child.errorEmitted = TRUE]
  /\ UNCHANGED pipelineVars

\* child.on('close'); refineWithAI sets no timer and sends no signal
ProviderClose ==
  /\ ai.child.spawned /\ ~ai.child.closed
  /\ \E code \in CloseCodes(ai.child) :
       ai' = [ai EXCEPT !.promise = SettleProviderOnClose(@, ai.child.command, code,
                                                          ai.stdout, ai.stderr),
                        !.child.closed = TRUE, !.child.exitCode = code]
  /\ UNCHANGED pipelineVars

\* RefinePromptTool.execute after its await: return the refined output, or throw
ExecuteResume ==
  /\ ai.pc = "awaiting"
  /\ ai.promise.state # "pending"
  /\ ai' = IF ai.promise.state = "resolved"
           THEN [ai EXCEPT !.pc = "returned",
                           !.outcome = [kind |-> "returned", value |-> ai.promise.value,
                                        message |-> ""]]
           ELSE [ai EXCEPT !.pc = "threw",
                           !.outcome = [kind |-> "thrown", value |-> NoResult,
                                        message |-> "Failed to refine prompt: "
                                                      \o ai.promise.error.message]]
  /\ UNCHANGED pipelineVars

ProviderNext ==
  \/ Execute
  \/ ProviderStdoutData
  \/ ProviderStderrData
  \/ ProviderError
  \/ ProviderClose
  \/ ExecuteResume

ProviderSpec == ProviderInit /\ [][ProviderNext]_vars

(***************************************************************************)
(* One subprocess invocation by either invoker: executeCodexCommand for a  *)
(* refine_prompt call, refineWithAI for a RefinePromptTool.execute call    *)
(***************************************************************************)

InvocationInit == Init \/ ProviderInit

InvocationNext ==
  \/ DOMAIN pc # {} /\ Next
  \/ DOMAIN pc = {} /\ ProviderNext

InvocationSpec == InvocationInit /\ [][InvocationNext]_vars

(***************************************************************************)
(* The server from its construction: the un-awaited availability probe     *)
(* next to a refine_prompt call                                            *)
(***************************************************************************)

\* the probe's child closes.  Handlers that run on a settled promise leave it as it
\* is, so the probe's events are followed up to its settlement.
ProbeClose ==
  /\ probe.promise.state = "pending"
  /\ \E code \in {"0", "1"} :
       probe' = [probe EXCEPT !.promise = SettleOnClose(@, code, "ok", "")]
  /\ UNCHANGED << engine, rules, isCodexAvailable, engineCall, ruleFile, ai,
                  callVars, invokerVars, outcomeVars >>

\* the probe's child cannot be started
ProbeSpawnError ==
  /\ probe.promise.state = "pending"
  /\ probe' = [probe EXCEPT !.promise = Reject(@, SpawnErrorOf(SpawnFailPlan.msg))]
  /\ UNCHANGED << engine, rules, isCodexAvailable, engineCall, ruleFile, ai,
                  callVars, invokerVars, outcomeVars >>

\* the probe's 30 s timer fires
ProbeTimerFire ==
  /\ probe.promise.state = "pending"
  /\ probe' = [probe EXCEPT !.promise = SettleOnTimeout(@)]
  /\ UNCHANGED << engine, rules, isCodexAvailable, engineCall, ruleFile, ai,
                  callVars, invokerVars, outcomeVars >>

\* testCodexAvailability returns true for a fulfilled executeCodexCommand and false
\* from its catch; checkCodexAvailability assigns the flag
ProbeResume ==
  /\ probe.pc = "awaiting"
  /\ probe.promise.state # "pending"
  /\ isCodexAvailable' = (probe.promise.state = "resolved")
  /\ probe' = [probe EXCEPT !.pc = "done"]
  /\ UNCHANGED << engine, rules, engineCall, ruleFile, ai,
                  callVars, invokerVars, outcomeVars >>

StartupInit ==
  /\ Init
  /\ \A c \in CallIds : req[c] \in ConcurrentRequests

StartupNext ==
  \/ \E c \in DOMAIN pc : HandleInvalid(c)
  \/ \E c \in DOMAIN pc : StartCall(c, ConcurrentPlans)
  \/ \E c \in DOMAIN pc : StdoutData(c)
  \/ \E c \in DOMAIN pc : StderrData(c)
  \/ \E c \in DOMAIN pc : SpawnError(c)
  \/ \E c \in DOMAIN pc : Close(c)
  \/ \E c \in DOMAIN pc : TimerFire(c)
  \/ \E c \in DOMAIN pc : Resume(c)
  \/ ProbeClose
  \/ ProbeSpawnError
  \/ ProbeTimerFire
  \/ ProbeResume

StartupSpec == StartupInit /\ [][StartupNext]_vars

(***************************************************************************)
(* Properties                                                              *)
(***************************************************************************)

\* runCodexCLI has returned for call c
Returned(c) == path[c] # "none"

CallerTags(c) == IF req[c].hasTags THEN req[c].tags ELSE <<>>

ListsNonEmpty(r) ==
  /\ Len(r.risks) > 0
  /\ Len(r.tags) > 0
  /\ Len(r.metadata.sections) > 0
  /\ Len(r.metadata.acceptanceCriteria) > 0
  /\ Len(r.metadata.checklist) > 0

\* C1: for a non-empty prompt and every subprocess outcome, the returned result has
\* non-empty improvedPrompt and rationale and non-empty risks, tags, sections,
\* acceptanceCriteria and checklist.  The code breaks it: tags can come back empty.
C1_AllFieldsNonEmpty ==
  \A c \in DOMAIN pc :
    (Returned(c) /\ req[c].prompt # "") =>
      /\ result[c].improvedPrompt # ""
      /\ result[c].rationale # ""
      /\ ListsNonEmpty(result[c])

\* C2: whenever the subprocess invocation failed (spawn error, non-zero exit,
\* timeout), runCodexCLI returned the error-fallback result and the handler answered
\* with it as a success response: the failure is not raised to the caller.
C2_FailureResolvesWithFallback ==
  \A c \in DOMAIN pc :
    (promise[c].state = "rejected" /\ pc[c] # "awaiting") =>
      /\ pc[c] = "responded"
      /\ path[c] = "error"
      /\ result[c].improvedPrompt = req[c].prompt \o OfflineNote
      /\ response[c].kind = "success"
      /\ response[c].body.improved_prompt = result[c].improvedPrompt
      /\ response[c].body.tags = result[c].tags

C2_Witness ==
  \E c \in DOMAIN pc :
    /\ pc[c] = "responded"
    /\ promise[c].state = "rejected"
    /\ promise[c].error.kind = "exit"
    /\ proc[c].exitCode = "2"

\* C3: every call that awaits its subprocess eventually completes with a result,
\* also when the process never writes and never exits.
C3_EveryCallCompletes ==
  \A c \in CallIds : (pc[c] = "awaiting") ~> (pc[c] = "responded" /\ Returned(c))

C3_Witness ==
  \E c \in DOMAIN pc :
    /\ pc[c] = "responded" /\ Returned(c)
    /\ proc[c].plan.exit = "hang" /\ proc[c].plan.ignoresTerm
    /\ ~proc[c].closed
    /\ timer[c] = "fired"
    /\ stdout[c] = ""

\* C4 as stated: a prompt that is empty after trimming is never accepted.
C4_BlankPromptRejected ==
  \A c \in DOMAIN pc :
    (FallbackBuildable(req[c]) /\ Trim(req[c].prompt) = "") => ~proc[c].spawned

\* C4 as the code has it: a string prompt is rejected with the validation error
\* exactly when it has no character at all; every prompt of length 1 or more
\* (a whitespace-only one included) is accepted and refined.
C4_EmptyPromptRejected ==
  \A c \in DOMAIN pc :
    (pc[c] # "idle" /\ FallbackBuildable(req[c])) =>
      /\ (Len(req[c].prompt) = 0) =>
           /\ ~proc[c].spawned
           /\ response[c].kind = "error"
           /\ response[c].message = "Prompt não pode estar vazio"
      /\ (Len(req[c].prompt) >= 1) => proc[c].spawned

C4_Witness ==
  \E c \in DOMAIN pc :
    /\ req[c].promptKind = "string" /\ req[c].prompt = ""
    /\ pc[c] = "responded"
    /\ response[c].kind = "error"

ExactValidJSON(c) ==
  /\ promise[c].state = "resolved"
  /\ Parsed[promise[c].value].ok
  /\ MatchJSON(promise[c].value).text = promise[c].value

TextsNonEmpty(r) == r.improvedPrompt # "" /\ r.rationale # ""

TextsNonBlank(r) == Trim(r.improvedPrompt) # "" /\ Trim(r.rationale) # ""

\* C6 as stated: a schema-valid object with every field non-empty is returned
\* unchanged.
C6_NonEmptyObjectUnchanged ==
  \A c \in DOMAIN pc :
    ( /\ Returned(c) /\ ExactValidJSON(c)
      /\ TextsNonEmpty(Parsed[promise[c].value].value)
      /\ ListsNonEmpty(Parsed[promise[c].value].value) )
    => result[c] = Parsed[promise[c].value].value

\* C6 as the code has it: the object is returned field for field when its two texts
\* hold a non-whitespace character and its five lists are non-empty (a text made of
\* whitespace only is replaced by enrichment; keys outside the schema are dropped).
C6_NonBlankObjectUnchanged ==
  \A c \in DOMAIN pc :
    ( /\ Returned(c) /\ ExactValidJSON(c)
      /\ TextsNonBlank(Parsed[promise[c].value].value)
      /\ ListsNonEmpty(Parsed[promise[c].value].value) )
    => /\ path[c] = "json"
       /\ result[c] = Parsed[promise[c].value].value

C6_Witness ==
  \E c \in DOMAIN pc :
    /\ Returned(c) /\ ExactValidJSON(c)
    /\ promise[c].value = DocB
    /\ result[c].improvedPrompt = "x"
    /\ result[c].metadata.checklist = <<"c1">>

\* the subprocess exited 0 and its output yields no schema-valid object
MalformedOutput(c) == promise[c].state = "resolved" /\ ~Parsed[promise[c].value].ok

C8_ErrorFallbackMarked ==
  \A c \in DOMAIN pc :
    (Returned(c) /\ promise[c].state = "rejected") =>
      /\ Includes(result[c].rationale, promise[c].error.message)
      /\ promise[c].error.message # ""
      /\ result[c].risks = <<OfflineRisk>> \o Risks[engine, req[c].prompt]
      /\ Len(result[c].tags) >= 2
      /\ result[c].tags[1] = "fallback"
      /\ result[c].tags[2] = "offline"

C8_Witness ==
  \E c \in DOMAIN pc :
    /\ Returned(c) /\ promise[c].state = "rejected"
    /\ promise[c].error.kind = "spawn"
    /\ Len(Suggested[engine, rules, req[c].prompt] \o CallerTags(c)) > TagCap
    /\ Len(Risks[engine, req[c].prompt]) >= 2

DegradedMarkers == {"fallback", "offline"}

\* C9 as stated: every degraded result, reconciler fallback or error fallback,
\* carries a degraded-mode marker in its risks or in its tags.
C9_DegradedResultMarked ==
  \A c \in DOMAIN pc :
    (Returned(c) /\ path[c] \in {"reconciler", "error"}) =>
      \/ OfflineRisk \in Elems(result[c].risks)
      \/ Elems(result[c].tags) \cap DegradedMarkers # {}

\* C9 as the code has it: only the error fallback is marked in risks and tags; the
\* reconciler fallback carries the heuristic risks and the heuristic and caller tags
\* alone, and is told from a healthy result by its fixed rationale only.
C9_OnlyErrorFallbackMarked ==
  \A c \in DOMAIN pc :
    /\ path[c] = "error" =>
         /\ OfflineRisk \in Elems(result[c].risks)
         /\ DegradedMarkers \subseteq Elems(result[c].tags)
    /\ path[c] = "reconciler" =>
         /\ result[c].rationale = FallbackRationale
         /\ OfflineRisk \notin Elems(result[c].risks)
         /\ Elems(result[c].tags) \subseteq
              Elems(Suggested[engine, rules, req[c].prompt]) \cup Elems(CallerTags(c))

C9_Witness ==
  \E c \in DOMAIN pc :
    /\ path[c] = "reconciler"
    /\ result[c].tags # <<>>
    /\ Elems(result[c].tags) \cap DegradedMarkers = {}
    /\ promise[c].value = "ok"

\* C10 as stated: every returned result has passed through enrichOutput.
C10_EveryResultEnriched ==
  \A c \in DOMAIN pc : Returned(c) => enriched[c]

\* C10 as the code has it: a result built from the subprocess output (validated
\* JSON or reconciler fallback) has passed through enrichOutput, so that its texts
\* are non-blank (the improved prompt unless the prompt itself is blank) and its
\* risks and metadata lists non-empty; the error fallback is returned from the catch
\* block without passing through it.
C10_OutputResultsEnriched ==
  \A c \in DOMAIN pc :
    Returned(c) =>
      /\ enriched[c] <=> path[c] \in {"json", "reconciler"}
      /\ path[c] = "error" <=> promise[c].state = "rejected"
      /\ enriched[c] =>
           /\ Trim(result[c].rationale) # ""
           /\ Trim(result[c].improvedPrompt) = "" => Trim(req[c].prompt) = ""
           /\ Len(result[c].risks) > 0
           /\ Len(result[c].metadata.sections) > 0
           /\ Len(result[c].metadata.acceptanceCriteria) > 0
           /\ Len(result[c].metadata.checklist) > 0

C10_Witness ==
  \E c \in DOMAIN pc :
    /\ path[c] = "json" /\ enriched[c]
    /\ promise[c].value = DocEmpty
    /\ result[c].rationale = DefaultRationale
    /\ result[c].metadata.sections = DefaultSections

\* the number of tags the fallback of call c is built from: heuristic tags, caller
\* tags, and the two fixed markers on the error path
CombinedTagCount(c) ==
  Len(Suggested[engine, rules, req[c].prompt]) + Len(CallerTags(c))
  + (IF path[c] = "error" THEN 2 ELSE 0)

\* C11: on the reconciler-fallback and error-fallback paths the returned tags never
\* number more than 8, and number exactly 8 whenever the heuristic tags plus the
\* caller's tags (plus the two markers on the error path) number more than 8.
C11_FallbackTagsCapped ==
  \A c \in DOMAIN pc :
    path[c] \in {"reconciler", "error"} =>
      /\ Len(result[c].tags) <= TagCap
      /\ CombinedTagCount(c) > TagCap => Len(result[c].tags) = TagCap
      /\ CombinedTagCount(c) <= TagCap => Len(result[c].tags) = CombinedTagCount(c)

C11_Witness ==
  \E c \in DOMAIN pc :
    /\ path[c] = "error"
    /\ Len(CallerTags(c)) = MaxCallerTags
    /\ CombinedTagCount(c) > TagCap + 2
    /\ Len(result[c].tags) = TagCap

NoDuplicates(seq) == \A i, j \in 1..Len(seq) : seq[i] = seq[j] => i = j

\* C12: the tags of every result runCodexCLI returns hold no entry twice, also when
\* a caller's tag equals a heuristic tag or a marker, and also for tags taken from
\* validated subprocess JSON.  The code breaks it: only the heuristic tags are
\* deduplicated, before the caller's tags are appended.
C12_TagsDistinct ==
  \A c \in DOMAIN pc : Returned(c) => NoDuplicates(result[c].tags)

\* C13: once the timer has elapsed before the process closed, the process has been
\* sent SIGTERM and the invocation has failed with the timeout error, and it stays
\* so in every later state, also after the process closes with status 0 and all of
\* its output delivered; the result then returned is the error fallback naming the
\* timeout.
C13_TimeoutStands ==
  \A c \in DOMAIN pc :
    timer[c] = "fired" =>
      /\ proc[c].signals = <<"SIGTERM">>
      /\ promise[c].state = "rejected"
      /\ promise[c].error = TimeoutError
      /\ Returned(c) =>
           /\ path[c] = "error"
           /\ Includes(result[c].rationale, "Codex CLI operation timed out")

C13_Witness ==
  \E c \in DOMAIN pc :
    /\ timer[c] = "fired"
    /\ proc[c].closed /\ proc[c].exitCode = "0"
    /\ stdout[c] = DocB
    /\ Returned(c)

\* the process of call c closed before the timer fired and without a spawn error
ClosedInTime(c) == proc[c].closed /\ timer[c] = "cleared" /\ ~proc[c].errorEmitted

\* C14: when the process closes before the timer fires and no spawn error occurred,
\* the invocation resolves with the accumulated stdout, trimmed, exactly when the
\* status is 0; for any other status, null included, it fails with the exit error
\* whose message carries the status and all stderr text accumulated up to the close.
C14_CloseSettlesByStatus ==
  \A c \in DOMAIN pc :
    ClosedInTime(c) =>
      /\ promise[c].state = "resolved" <=> proc[c].exitCode = "0"
      /\ promise[c].state = "resolved" => promise[c].value = Trim(stdout[c])
      /\ proc[c].exitCode # "0" =>
           /\ promise[c].state = "rejected"
           /\ promise[c].error.kind = "exit"
           /\ promise[c].error.message =
                "Codex CLI failed with exit code " \o proc[c].exitCode \o ": " \o stderr[c]
           /\ proc[c].exitCode # "null" => promise[c].error.code = proc[c].exitCode

C14_Witness ==
  \E c \in DOMAIN pc :
    /\ ClosedInTime(c)
    /\ proc[c].exitCode = "2"
    /\ stderr[c] = "warning"
    /\ stdout[c] = DocB
    /\ promise[c].error.message = "Codex CLI failed with exit code 2: warning"

\* C15: when the process cannot be started (binary missing, no permission), the
\* invocation fails with the spawn error that carries the underlying message, the
\* close that follows does not change that, and the rationale of the error fallback
\* runCodexCLI returns contains the underlying message.
C15_SpawnErrorNamed ==
  \A c \in DOMAIN pc :
    proc[c].errorEmitted =>
      /\ promise[c].state = "rejected"
      /\ promise[c].error.kind = "spawn"
      /\ promise[c].error.message = "Failed to spawn Codex CLI: " \o proc[c].plan.msg
      /\ Returned(c) =>
           /\ path[c] = "error"
           /\ Includes(result[c].rationale, proc[c].plan.msg)

C15_Witness ==
  \E c \in DOMAIN pc :
    /\ proc[c].errorEmitted
    /\ proc[c].plan.msg = "spawn codex EACCES"
    /\ proc[c].closed /\ proc[c].exitCode = "-13"
    /\ Returned(c)

\* C16: a call with a valid request spawns exactly one process, whatever becomes of
\* it (spawn error, non-zero exit, timeout, malformed output: no retry); a request
\* that fails validation spawns none.
C16_OneSpawnPerCall ==
  \A c \in DOMAIN pc :
    /\ proc[c].spawns = IF pc[c] # "idle" /\ SchemaAcceptsInput(req[c]) THEN 1 ELSE 0
    /\ proc[c].spawned <=> proc[c].spawns = 1
    /\ proc[c].spawned => proc[c].command = "codex"

C16_Witness ==
  \E c \in DOMAIN pc :
    /\ pc[c] = "responded"
    /\ path[c] = "reconciler"
    /\ promise[c].value = DocNotJSON
    /\ proc[c].spawns = 1

\* everything the model holds about call c
CallState(c) ==
  << req[c], pc[c], proc[c], stdout[c], stderr[c], timer[c], promise[c],
     result[c], response[c], path[c], enriched[c] >>

\* the buffers, signals, settlement and result of call c come from its own process,
\* its own timer and its own request
OwnEventsOnly(c) ==
  /\ stdout[c] = Concat(SubSeq(proc[c].plan.out, 1, proc[c].outIdx))
  /\ stderr[c] = Concat(SubSeq(proc[c].plan.err, 1, proc[c].errIdx))
  /\ proc[c].signals = IF timer[c] = "fired" THEN <<"SIGTERM">> ELSE <<>>
  /\ promise[c].state = "resolved" =>
       proc[c].closed /\ proc[c].exitCode = "0" /\ promise[c].value = Trim(stdout[c])
  /\ promise[c].state = "rejected" =>
       \/ promise[c].error = TimeoutError /\ timer[c] = "fired"
       \/ promise[c].error = SpawnErrorOf(proc[c].plan.msg) /\ proc[c].errorEmitted
       \/ promise[c].error = ExitErrorOf(proc[c].exitCode, stderr[c]) /\ proc[c].closed
  /\ Returned(c) => result[c] = runCodexCLI(engine, rules, req[c], promise[c]).value

\* C17: with several calls in flight, under every interleaving of their events,
\* each call's buffers, timer, signals, settlement and result are made of its own
\* process's events and its own request only (a timer that fires signals its own
\* call's process alone), and no step taken for one call changes anything of
\* another call.
C17_CallsIndependent ==
  /\ [](\A c \in DOMAIN pc : OwnEventsOnly(c))
  /\ [][\A c, d \in DOMAIN pc :
          (c # d /\ CallState(c)' # CallState(c)) => CallState(d)' = CallState(d)]_vars

C17_Witness ==
  \E c, d \in DOMAIN pc :
    /\ c # d
    /\ path[c] = "error" /\ promise[c].error = TimeoutError
    /\ proc[c].signals = <<"SIGTERM">>
    /\ path[d] = "json" /\ timer[d] = "cleared" /\ proc[d].signals = <<>>
    /\ stdout[c] = "" /\ stdout[d] = DocB

\* C18: identifyRisks returns a non-empty sequence for every input string, the empty
\* string and strings matching no keyword group included.  The engine that codex.ts
\* imports (src/src/templates.ts) breaks it: it returns the risks collected, which
\* are none for such strings.
C18_RisksNeverEmpty ==
  engineCall.method = "identifyRisks" => Len(engineCall.value) > 0

\* keyword k occurs in the prompt, letter case aside
Occurs(prompt, k) ==
  \E i \in 1..(Len(prompt) - Len(k) + 1) : ToLowerCase(SubSeq(prompt, i, i + Len(k) - 1)) = k

DevelopmentKeywords == {"script", "código", "desenvolv", "program"}
DataKeywords == {"dados", "csv", "database", "postgres"}

FirstIndex(seq, x) == CHOOSE i \in 1..Len(seq) : seq[i] = x /\ \A j \in 1..(i - 1) : seq[j] # x

\* the tags suggestTags collects for the last call before it removes duplicates
CollectedTags ==
  VocabularyTags(engine, ToLowerCase(engineCall.prompt), rules.common_tags)
  \o KeywordTags(engine, ToLowerCase(engineCall.prompt))

\* C20: suggestTags returns the matching vocabulary tags followed by the tags of the
\* triggered keyword rules in rule order, every tag once, at the place of its first
\* occurrence; it returns the empty sequence when no tag and no rule matches.
C20_TagsInFirstSeenOrder ==
  engineCall.method = "suggestTags" =>
    /\ Elems(engineCall.value) = Elems(CollectedTags)
    /\ NoDuplicates(engineCall.value)
    /\ \A i, j \in 1..Len(engineCall.value) :
         i < j => FirstIndex(CollectedTags, engineCall.value[i])
                    < FirstIndex(CollectedTags, engineCall.value[j])
    /\ CollectedTags = <<>> => engineCall.value = <<>>

C20_Witness ==
  /\ engineCall.method = "suggestTags"
  /\ engineCall.prompt = "script api"
  /\ engineCall.value = <<"api", "Script", "automação">>

\* the acceptance criteria and checklist given to a category without a template
UnknownCategoryLists ==
  [ acceptanceCriteria |-> <<"Funcionalidade implementada corretamente",
                             "Testes passando", "Documentação atualizada">>,
    checklist |-> <<"Revisar código", "Executar testes", "Validar requisitos">> ]

\* the acceptance criteria and checklist given to a category with a template
KnownCategoryLists ==
  [ acceptanceCriteria |-> <<"Solução atende aos requisitos especificados",
                             "Código segue padrões de qualidade",
                             "Testes validam funcionalidade">>,
    checklist |-> <<"Implementar solução proposta", "Criar testes unitários",
                    "Validar com dados de teste", "Documentar implementação">> ]

\* C21: getTemplateMetadata returns the category's configured section list when the
\* rules have a template for it (the default list when that template gives none), and
\* the default list Plan, Risks, Next actions, Tests for every category the rules do
\* not contain, the data category under the built-in default rules included; the
\* acceptance criteria and the checklist are one fixed pair for categories with a
\* template and another for categories without.
C21_MetadataByTemplate ==
  engineCall.method = "getTemplateMetadata" =>
    LET name == engineCall.prompt
        meta == engineCall.value
        known == name \in DOMAIN rules.templates
    IN /\ (known /\ "sections" \in DOMAIN rules.templates[name]) =>
            meta.sections = rules.templates[name].sections
       /\ (~known \/ "sections" \notin DOMAIN rules.templates[name]) =>
            meta.sections = <<"Plan", "Risks", "Next actions", "Tests">>
       /\ meta.acceptanceCriteria =
            IF known THEN KnownCategoryLists.acceptanceCriteria
            ELSE UnknownCategoryLists.acceptanceCriteria
       /\ meta.checklist =
            IF known THEN KnownCategoryLists.checklist ELSE UnknownCategoryLists.checklist

C21_Witness ==
  /\ engineCall.method = "getTemplateMetadata"
  /\ rules = DefaultRules
  /\ engineCall.prompt = detectTemplate("postgres csv")
  /\ engineCall.prompt = "data_processing"
  /\ engineCall.value.sections = <<"Plan", "Risks", "Next actions", "Tests">>

\* C22: when the rule file is missing or cannot be parsed, loading does not fail and the
\* rules are the built-in default document; a refinement call made afterwards returns
\* what the pipeline computes from those defaults.
C22_DefaultsWhenFileUnusable ==
  ruleFile \in {"missing", "unparseable"} =>
    /\ rules = DefaultRules
    /\ \A c \in DOMAIN path :
         Returned(c) => result[c] = runCodexCLI(engine, DefaultRules, req[c], promise[c]).value

C22_Witness ==
  /\ ruleFile = "unparseable"
  /\ \E c \in DOMAIN path :
       /\ path[c] = "reconciler"
       /\ result[c].metadata.sections = DefaultRules.templates["software_development"].sections

C24_MockResolvesWithoutProcess ==
  ai.mock = "true" =>
    /\ ~ai.child.spawned /\ ai.child.spawns = 0
    /\ ai.pc # "idle" => (ai.promise.state = "resolved" /\ ai.promise.value = MockResponse)
    /\ ai.pc # "threw"
    /\ ai.pc = "returned" => ai.outcome.value = MockResponse

C24_Witness ==
  /\ ai.mock = "true"
  /\ ai.hasProvider /\ ai.provider = "gemini" /\ ai.hasModel
  /\ ai.pc = "returned"
  /\ ai.outcome.value = MockResponse
  /\ ~ai.child.spawned

\* the prompt names an automation keyword and the data keywords
AutomationDataPrompt(prompt) ==
  LET lowerPrompt == ToLowerCase(prompt) IN
  /\ Includes(lowerPrompt, "script")
  /\ Includes(lowerPrompt, "csv")
  /\ Includes(lowerPrompt, "postgres")
  /\ Includes(lowerPrompt, "validação")

\* C25: for a prompt that contains "script" and "csv", "postgres", "validação", when
\* the spawn fails, for any caller tags and any loaded vocabulary, the error fallback's
\* tags include the data tag and the automation tag, its risks include the
\* data-validation advisory, and metadata.sections is the development template's
\* section list or the default list.
C25_OfflineResultForAutomationData ==
  (engineCall.method = "createErrorFallbackOutput" /\ AutomationDataPrompt(engineCall.prompt)) =>
    /\ "dados" \in Elems(engineCall.value.tags)
    /\ "automação" \in Elems(engineCall.value.tags)
    /\ DataRisk \in Elems(engineCall.value.risks)
    /\ \/ engineCall.value.metadata.sections = DefaultSections
       \/ /\ "software_development" \in DOMAIN rules.templates
          /\ "sections" \in DOMAIN rules.templates["software_development"]
          /\ engineCall.value.metadata.sections = rules.templates["software_development"].sections

\* the non-blank lines of the output the reconciler was given for call c
OutputLines(c) == Lines[promise[c].value]

\* C27 as stated: on the reconciler fallback path improvedPrompt is the first line of the
\* output whose length is at least 80% of the prompt's, and the original prompt when
\* no line is that long.
C27_FirstLineOfAtLeast80Percent ==
  \A c \in DOMAIN path :
    (path[c] = "reconciler") =>
      LET lines == OutputLines(c)
          long == {i \in 1..Len(lines) : 10 * Len(lines[i]) >= 8 * Len(req[c].prompt)}
      IN IF long = {} THEN result[c].improvedPrompt = req[c].prompt
         ELSE \E i \in long : /\ \A k \in long : i <= k
                              /\ result[c].improvedPrompt = lines[i]

\* C27: on the reconciler fallback path improvedPrompt is the first non-blank line of the
\* output whose length is more than 80% of the prompt's (a line of exactly 80% does not
\* qualify); if no line qualifies it is the first non-blank line of the output, and the
\* original prompt unmodified only when the output has no non-blank line.
C27_FirstLineOfMoreThan80Percent ==
  \A c \in DOMAIN path :
    (path[c] = "reconciler") =>
      LET lines == OutputLines(c)
          long == {i \in 1..Len(lines) : 10 * Len(lines[i]) > 8 * Len(req[c].prompt)}
      IN IF Len(lines) = 0 THEN result[c].improvedPrompt = req[c].prompt
         ELSE IF long = {} THEN result[c].improvedPrompt = lines[1]
         ELSE \E i \in long : /\ \A k \in long : i <= k
                              /\ result[c].improvedPrompt = lines[i]

C27_Witness ==
  \E c \in DOMAIN path :
    /\ path[c] = "reconciler"
    /\ req[c].prompt = "hello"
    /\ OutputLines(c) = <<"ab", "abcd", "abcde">>
    /\ result[c].improvedPrompt = "abcde"

\* the braces still open after position j of s, counted from position i
OpenBraces(s, i, j) ==
  Cardinality({k \in i..j : CharAt(s, k) = "{"}) - Cardinality({k \in i..j : CharAt(s, k) = "}"})

\* the first balanced brace-delimited substring of s: from the first "{" to the first
\* position where every brace opened since is closed
FirstBalancedObject(s) ==
  LET i == IndexOf(s, "{")
      ends == IF i = 0 THEN {} ELSE {j \in i..Len(s) : OpenBraces(s, i, j) = 0}
  IN IF ends = {} THEN [found |-> FALSE, text |-> ""]
     ELSE [found |-> TRUE, text |-> SubSeq(s, i, CHOOSE j \in ends : \A k \in ends : j <= k)]

FirstObjects == [o \in Outputs |-> FirstBalancedObject(o)]

\* C26: for the stdout of a process that exited 0, when the first balanced object-shaped
\* substring is a schema-valid JSON object, whatever text, braces or further objects
\* surround it, that object is the result (after enrichment) and not the fallback.
C26_FirstBalancedObjectReturned ==
  \A c \in DOMAIN path :
    (Returned(c) /\ promise[c].state = "resolved") =>
      LET first == FirstObjects[promise[c].value]
          parsed == JSONParse(first.text)
      IN (first.found /\ parsed.ok /\ SchemaAccepts(parsed.value)) =>
           /\ path[c] = "json"
           /\ result[c] = enrichOutput(engine, rules, SchemaValue(parsed.value), req[c].prompt)

\* C28: once the child's close event has occurred, by status 0, by another status or
\* after a spawn error, the timer is no longer armed, it does not fire afterwards and
\* no signal is sent to the child after the close.
C28_TimerCancelledOnClose ==
  /\ [](\A c \in DOMAIN proc : proc[c].closed => timer[c] \in {"cleared", "fired"})
  /\ [][\A c \in DOMAIN proc :
          proc[c].closed => /\ timer'[c] = timer[c]
                            /\ proc'[c].signals = proc[c].signals]_vars

C28_Witness ==
  \E c \in DOMAIN proc :
    /\ proc[c].closed
    /\ proc[c].plan.kind = "spawnfail"
    /\ timer[c] = "cleared"
    /\ proc[c].signals = <<>>
    /\ pc[c] = "responded"

\* C29: enrichOutput is idempotent: for every result and every prompt, enriching the
\* enriched result with the same prompt gives the enriched result again.
C29_EnrichIdempotent ==
  engineCall.method = "enrichOutput" =>
    enrichOutput(engine, rules, engineCall.value, engineCall.prompt) = engineCall.value

C29_Witness ==
  /\ engineCall.method = "enrichOutput"
  /\ engineCall.prompt = " "
  /\ engineCall.value.improvedPrompt = " "
  /\ engineCall.value.rationale = DefaultRationale
  /\ engineCall.value.tags = <<>>
  /\ engineCall.value.metadata.sections = DefaultSections
  /\ engineCall.value.metadata.checklist = <<"c1">>

\* the six risk categories of the claim, in order: the keywords that trigger each and
\* the advisory it contributes
RiskCategories ==
  << [ keywords |-> {"password", "secret", "token", "auth", "login", "senha"},
       advisory |-> "Dados sensíveis podem estar expostos" ],
     [ keywords |-> {"loop", "recursão", "grande volume", "many", "milhões", "lote"},
       advisory |-> "Possível impacto na performance com grandes volumes" ],
     [ keywords |-> {"database", "sql", "dados", "csv", "postgres", "validação"},
       advisory |-> "Validação de dados de entrada necessária" ],
     [ keywords |-> {"api", "external", "terceiro", "http", "rest", "endpoint"},
       advisory |-> "Dependência de serviços externos pode falhar" ],
     [ keywords |-> {"arquivo", "file", "salvar", "gravar"},
       advisory |-> "Verificar permissões de acesso a arquivos" ],
     [ keywords |-> {"backup", "recovery", "restore", "recuper"},
       advisory |-> "Implementar estratégia de recuperação em caso de falha" ] >>

Triggered(prompt) ==
  {i \in 1..Len(RiskCategories) : \E k \in RiskCategories[i].keywords : Occurs(prompt, k)}

\* C30: identifyRisks evaluates six categories independently; every triggered category
\* contributes exactly its one advisory and an untriggered one none, so the result has
\* 1 to 6 entries, no entry twice, in the category order secrets/auth, performance, data
\* validation, external dependency, filesystem, backup/recovery; the generic advisory
\* is there only when no category triggers.
C30_OneAdvisoryPerTriggeredCategory ==
  engineCall.method = "identifyRisks" =>
    LET risks == engineCall.value
        triggered == Triggered(engineCall.prompt)
    IN /\ Len(risks) \in 1..6
       /\ NoDuplicates(risks)
       /\ \A i \in 1..Len(RiskCategories) :
            (RiskCategories[i].advisory \in Elems(risks)) <=> (i \in triggered)
       /\ \A a, b \in 1..Len(risks) : \A i, j \in triggered :
            (risks[a] = RiskCategories[i].advisory /\ risks[b] = RiskCategories[j].advisory
               /\ i < j) => a < b
       /\ (GenericRisk \in Elems(risks)) <=> (triggered = {})
       /\ Len(risks) = IF triggered = {} THEN 1 ELSE Cardinality(triggered)

(***************************************************************************)
(* C31: getTemplateMetadata is a pure function of the category             *)
(***************************************************************************)

SameRun(c, d) ==
  /\ proc[c].plan = proc[d].plan
  /\ stdout[c] = stdout[d] /\ stderr[c] = stderr[d]
  /\ proc[c].errorEmitted = proc[d].errorEmitted
  /\ proc[c].closed = proc[d].closed /\ proc[c].exitCode = proc[d].exitCode
  /\ timer[c] = timer[d]

FirstEventOutcome(c) ==
  IF timer[c] = "fired" THEN Reject(PendingPromise, TimeoutError)
  ELSE IF proc[c].errorEmitted THEN Reject(PendingPromise, SpawnErrorOf(proc[c].plan.msg))
  ELSE IF proc[c].closed
       THEN SettleOnClose(PendingPromise, proc[c].exitCode, stdout[c], stderr[c])
  ELSE PendingPromise

\* the same for refineWithAI, which has no timer
FirstProviderOutcome ==
  IF ai.child.errorEmitted
  THEN Reject(PendingAIPromise, AIStartError(ai.child.command, ai.child.plan.msg))
  ELSE IF ai.child.closed
       THEN SettleProviderOnClose(PendingAIPromise, ai.child.command, ai.child.exitCode,
                                  ai.stdout, ai.stderr)
  ELSE PendingAIPromise

\* C33: each subprocess invocation settles exactly once: of close, error and timer, the
\* first to occur determines the outcome; no later event (a close after a timeout, a
\* close after a spawn error) changes a settled outcome, and the orchestrator is
\* resumed with it once: what it returned never changes afterwards.
C33_SettlesExactlyOnce ==
  /\ [](\A c \in DOMAIN pc : promise[c] = FirstEventOutcome(c))
  /\ [](~IsMockMode(ai.mock) => ai.promise = FirstProviderOutcome)
  /\ [][ /\ \A c \in DOMAIN pc :
              /\ promise[c].state # "pending" => promise'[c] = promise[c]
              /\ Returned(c) => /\ result'[c] = result[c]
                                /\ response'[c] = response[c]
                                /\ path'[c] = path[c]
         /\ ai.promise.state # "pending" => ai'.promise = ai.promise
         /\ ai.outcome # NoOutcome => ai'.outcome = ai.outcome ]_vars

\* a call answered from the timeout whose process then closed with a failure status
C33_Witness ==
  \E c \in DOMAIN pc :
    /\ timer[c] = "fired" /\ proc[c].closed /\ proc[c].exitCode = "2"
    /\ stderr[c] = "warning"
    /\ promise[c].error = TimeoutError
    /\ response[c] # NoResponse

(***************************************************************************)
(* C34: only a timed-out invocation signals its process                    *)
(***************************************************************************)

\* C34: a termination signal is sent to the process only in invocations whose outcome
\* is Timeout: the signal is sent in a step that finds the invocation unsettled and
\* settles it with the timeout error, and an invocation that settled with success,
\* non-zero exit or spawn error has sent no signal and never sends one later.
C34_SignalOnlyOnTimeout ==
  /\ [](\A c \in DOMAIN pc :
          /\ proc[c].signals # <<>> =>
               promise[c].state = "rejected" /\ promise[c].error = TimeoutError
          /\ (promise[c].state # "pending" /\ promise[c].error # TimeoutError) =>
               proc[c].signals = <<>>
          /\ (proc[c].closed /\ proc[c].signals = <<>>) => timer[c] = "cleared")
  /\ [][\A c \in DOMAIN pc :
          proc'[c].signals # proc[c].signals =>
            /\ promise[c].state = "pending"
            /\ promise'[c].error = TimeoutError
            /\ proc'[c].signals = <<"SIGTERM">>]_vars

\* a timed-out call whose process ended on the signal, after the response was returned
C34_Witness ==
  \E c \in DOMAIN pc :
    /\ proc[c].signals = <<"SIGTERM">>
    /\ proc[c].closed /\ proc[c].exitCode = "null"
    /\ promise[c].error = TimeoutError
    /\ path[c] = "error"

(***************************************************************************)
(* C35: handleRefinePrompt never throws                                    *)
(***************************************************************************)

\* C35: handleRefinePrompt never throws: for every input, also one without a prompt
\* field, with a non-string prompt, or null, the call ends with a response that holds
\* either the formatted refinement or the error object with its fallback.
C35_HandlerNeverThrows ==
  \A c \in DOMAIN pc :
    /\ pc[c] # "threw"
    /\ pc[c] = "responded" =>
         \/ response[c].kind = "success" /\ response[c].body.success
         \/ response[c].kind = "error" /\ "fallback" \in DOMAIN response[c]

(***************************************************************************)
(* C36: refineWithAI resolves on a validated object only, and the tool     *)
(* rethrows every failure without a fallback                               *)
(***************************************************************************)

\* the documents of the model that parse and pass RefinedPromptSchema
ValidDocs ==
  { d \in {DocB, DocBlank, DocEmpty, DocExtra, DocWrongShape, DocWrongType, DocNotJSON} :
      JSONParse(d).ok /\ RefinedPromptSchemaAccepts(JSONParse(d).value) }

\* C36: in the provider-selecting path refineWithAI resolves only when the process
\* closed with status 0 and its output contains a JSON object that passes schema
\* validation, and then with that validated object; on a spawn failure, a non-zero
\* exit, and an output with no JSON, unparsable JSON or schema-invalid JSON it rejects;
\* RefinePromptTool.execute rethrows every rejection as "Failed to refine prompt: ..."
\* and produces no fallback result.
C36_ResolvesOnValidatedObjectOnly ==
  ~IsMockMode(ai.mock) =>
    /\ ai.promise.state = "resolved" =>
         /\ ai.child.closed /\ ai.child.exitCode = "0" /\ ~ai.child.errorEmitted
         /\ \E d \in ValidDocs :
              /\ Includes(ai.stdout, d)
              /\ ai.promise.value = RefinedPromptSchemaValue(JSONParse(d).value)
    /\ ai.child.errorEmitted =>
         ai.promise.state = "rejected" /\ ai.promise.error.kind = "start"
    /\ (ai.child.closed /\ ~ai.child.errorEmitted /\ ai.child.exitCode # "0") =>
         ai.promise.state = "rejected" /\ ai.promise.error.kind = "exit"
    /\ (ai.child.closed /\ ai.child.exitCode = "0"
          /\ \A d \in ValidDocs : ~Includes(ai.stdout, d)) =>
         /\ ai.promise.state = "rejected"
         /\ ai.promise.error.kind =
              IF ai.stdout \in {DocWrongShape} THEN "validation" ELSE "parse"
    /\ ai.pc = "returned" => ai.promise.state = "resolved"
    /\ ai.pc = "threw" =>
         /\ ai.promise.state = "rejected"
         /\ ai.outcome.kind = "thrown"
         /\ ai.outcome.message = "Failed to refine prompt: " \o ai.promise.error.message
         /\ ai.outcome.value = NoResult

\* a provider run that closed with status 0 and a schema-invalid object, rethrown
C36_Witness ==
  /\ ~IsMockMode(ai.mock)
  /\ ai.child.closed /\ ai.child.exitCode = "0" /\ ai.stdout = DocWrongShape
  /\ ai.pc = "threw"
  /\ ai.outcome.message =
       "Failed to refine prompt: " \o ai.child.command \o " CLI output failed validation: ZodError"

(***************************************************************************)
(* C37: a refineWithAI call whose process hangs                            *)
(***************************************************************************)

\* how far the call and its child have come; every step of ProviderNext moves it
providerProgress ==
  << ai.pc, ai.child.spawned, ai.child.outIdx, ai.child.errIdx, ai.child.errorEmitted,
     ai.child.closed >>

\* every handler of refineWithAI that can run, and the continuation of execute, does run
ProviderFairness == WF_providerProgress(ProviderNext)

FairProviderSpec == ProviderSpec /\ ProviderFairness

\* C37: a refineWithAI call whose spawned process never closes and never emits an
\* error still settles (a fixed timeout ends the process and fails the call): every
\* call that awaits refineWithAI eventually has a settled promise, for either provider.
C37_HungProviderCallSettles ==
  (ai.pc = "awaiting") ~> (ai.promise.state # "pending")

(***************************************************************************)
(* C38: processing_info.codex_available and how the request was served     *)
(***************************************************************************)

\* the result of call c is the error fallback: its tags start with the two markers
ErrorFallbackTags(c) ==
  Len(result[c].tags) >= 2 /\ SubSeq(result[c].tags, 1, 2) = <<"fallback", "offline">>

\* C38: a success response that reports codex_available true never carries an
\* error-fallback result, and a response built from a healthy subprocess run (the
\* process closed with status 0 in time) never reports codex_available false: the flag
\* agrees with how the request was served, however the startup probe and the request
\* are ordered.
C38_FlagAgreesWithRequest ==
  \A c \in DOMAIN pc :
    (pc[c] = "responded" /\ response[c].kind = "success") =>
      /\ response[c].body.codex_available => ~ErrorFallbackTags(c)
      /\ path[c] \in {"json", "reconciler"} => response[c].body.codex_available

====
